---- MODULE Spec2Model ----
(***************************************************************************)
(* gossahash: the bisection search driver (searchState.search, filter,     *)
(* main), the trial classifier (trySuffix), the env encoder                *)
(* (newStyleEnvString) and the probe (NewHashDebug, DebugHashMatchParam).  *)
(*                                                                         *)
(* A binary suffix is a sequence of the one-character strings "0" and "1", *)
(* element 1 being the leftmost character (the most significant bit).      *)
(***************************************************************************)
EXTENDS Integers, Sequences, FiniteSets, TLC

VARIABLES
    mode,                       \* the test command: "adv" arbitrary, "det" fail.go, "memo" deterministic, "env" none
    pc,                         \* position of the driver
    initialSuffix,              \* var initialSuffix (after main has split -R)
    restartSuffix,              \* var restartSuffix (first character of -R, or empty)
    multiple,                   \* var multiple
    multiple0,                  \* history: multiple as the flag -n set it
    batchExclude,               \* var batchExclude
    bisectSyntax,               \* var bisectSyntax
    excludes,                   \* var excludes
    suffix,                     \* ss.suffix
    hashes,                     \* ss.hashes
    next_singleton_hash_index,  \* ss.next_singleton_hash_index
    withoutExcludes,            \* ss.withoutExcludes
    confirmed_suffix,           \* search: confirmed_suffix
    restart_suffix,             \* search: restart_suffix
    first_result,               \* search: first_result (NoResult when out of scope)
    searchResult,               \* value returned by the last call of search
    temporarily_removed,        \* filter: temporarily_removed
    fi,                         \* filter: loop variable i
    sss,                        \* main: the search states handed to finish
    printed,                    \* what main printed: "" / "FLAKY" / "NO MORE"
    exitCode,                   \* exit status of the driver process (-1 while running)
    universe,                   \* det: the sites of the subject program, [name, hash]
    special,                    \* det: the sites that count towards failure
    threshold,                  \* det: how many special sites must trigger for failure
    monotone,                   \* memo: the test fails under every superset of rules it fails under
    memo,                       \* memo: the trials run so far, [xs, primary, rules, err, count]
    filtered,                   \* history: {suffix} \cup hashes as a first filter left them
    probe,                      \* the variable handed to the subject program and what it makes of it
    timeout,                    \* var timeout
    cmd,                        \* tryCmd: the child, the watchdog and the locals of one trial
    trig,                       \* matchTrigger: the output, the scanner's position, m and lastTrigger
    last,                       \* history: the most recent trial, [err, count, result]
    doneSet,                    \* history: suffixes of trials classified DONE by this search state
    sawDone0                    \* history: a trial of the current search was DONE0

\* the flags and the subject program: set before the first trial, then fixed
flags == <<mode, bisectSyntax, initialSuffix, restartSuffix, batchExclude,
           universe, special, threshold, monotone, timeout, multiple0>>

vars == <<flags, pc, multiple,
          excludes, suffix, hashes, next_singleton_hash_index, withoutExcludes,
          confirmed_suffix, restart_suffix, first_result, searchResult,
          temporarily_removed, fi, sss, printed, exitCode,
          last, memo, filtered, probe, cmd, trig, doneSet, sawDone0>>

-----------------------------------------------------------------------------
(* Program constants and bounds of the model *)

\* var hashLimit: maximum length of a hash string
hashLimit == 30

\* exit status of a Go program that panicked
PanicExit == 2

\* length of the suffix given with -R in the runs with arbitrary trial outcomes
InitialLen == 27
\* largest number of distinct triggers of a trial of an arbitrary test command
MaxCount == 2
\* the hashes of the sites of a subject program are below 2^HashBits
HashBits == 2
\* largest number of sites of a subject program
MaxSites == 3
\* largest value of the -n flag, and the cap on searches when -n is 0
MaxMultiple == 2
\* entries of hashes when filter is looked at by itself
MaxHashes == 3
\* exclusions and entries of hashes when the variable is looked at by itself
MaxRules == 2

-----------------------------------------------------------------------------
(* Strings *)

Bit == {"0", "1"}

\* all binary strings of length at most n
BinStrings(n) == UNION {[1..k -> Bit] : k \in 0..n}

\* the string of n copies of character c
Repeat(c, n) == [k \in 1..n |-> c]

\* the element of a one-element set; The({e(x) : x \in {v}}) is e(v) with v
\* evaluated once
The(S) == CHOOSE x \in S : TRUE

\* the value of the binary digits s[1..k]
RECURSIVE ParseBits(_, _)
ParseBits(s, k) ==
    IF k = 0 THEN 0 ELSE 2 * ParseBits(s, k - 1) + (IF s[k] = "1" THEN 1 ELSE 0)

\* strconv.ParseUint(s, 2, 64); the empty string is an error whose value is 0
ParseBinary(s) == ParseBits(s, Len(s))

Pow2(n) == 2 ^ n

-----------------------------------------------------------------------------
(* Env encoder: searchState.newStyleEnvString *)

\* var sep
sep == "/"

RECURSIVE ExcludesString(_)
\* newStyleEnvString, lines 130-132: "-" + x + sep for every exclusion
ExcludesString(xs) ==
    IF Len(xs) = 0 THEN <<>>
    ELSE <<"-">> \o Head(xs) \o <<sep>> \o ExcludesString(Tail(xs))

RECURSIVE HashesString(_)
\* newStyleEnvString, lines 135-137: sep + h for every entry of hashes
HashesString(hs) ==
    IF Len(hs) = 0 THEN <<>>
    ELSE <<sep>> \o Head(hs) \o HashesString(Tail(hs))

\* newStyleEnvString as if the exclusions were written whatever withExcludes
newStyleEnvStringAll(xs, sfx, hs, withExcludes) ==
    ExcludesString(xs) \o sfx \o HashesString(hs)

\* newStyleEnvString: the value of the variable, the text after
\* envEnvPrefix + hash_ev_string + "=", with the default empty hashPrefix
newStyleEnvString(xs, sfx, hs, withExcludes) ==
    (IF withExcludes THEN ExcludesString(xs) ELSE <<>>) \o sfx \o HashesString(hs)

-----------------------------------------------------------------------------
(* Probe: toHashAndMask, NewHashDebug, DebugHashMatchParam (fail.go) *)

\* width of a hash (uint64)
HashWidth == 64

RECURSIVE BitAnd(_, _)
BitAnd(x, y) ==
    IF x = 0 \/ y = 0 THEN 0
    ELSE (x % 2) * (y % 2) + 2 * BitAnd(x \div 2, y \div 2)

RECURSIVE BitXor(_, _)
BitXor(x, y) ==
    IF x = 0 THEN y
    ELSE IF y = 0 THEN x
    ELSE (((x % 2) + (y % 2)) % 2) + 2 * BitXor(x \div 2, y \div 2)

\* strconv.ParseUint(s, 2, 64) fails
ParseFails(s) == Len(s) = 0 \/ \E k \in 1..Len(s) : s[k] \notin Bit

\* toHashAndMask with the mask one bit too wide
toHashAndMaskWide(s, varname) ==
    LET l0 == Len(s)
        s1 == IF l0 > HashWidth THEN SubSeq(s, l0 - HashWidth + 1, l0) ELSE s
        l == IF l0 > HashWidth THEN HashWidth ELSE l0
    IN [name |-> varname, hash |-> ParseBinary(s1), mask |-> Pow2(l + 1) - 1,
        bad |-> ParseFails(s1)]

\* toHashAndMask: m := ^(^uint64(0) << l) is 2^l - 1; bad stands for the panic
toHashAndMask(s, varname) ==
    LET l0 == Len(s)
        s1 == IF l0 > HashWidth THEN SubSeq(s, l0 - HashWidth + 1, l0) ELSE s
        l == IF l0 > HashWidth THEN HashWidth ELSE l0
    IN [name |-> varname, hash |-> ParseBinary(s1), mask |-> Pow2(l) - 1,
        bad |-> ParseFails(s1)]

\* NewHashDebug, line 591: the separators
Separators == {"/", "+", ",", " ", "\t", "-", "v"}

RECURSIVE Tokens(_, _, _, _)
\* NewHashDebug, lines 586-607: the tokens of s from its character k on; ss are
\* those found, sc the current
Tokens(s, k, ss, sc) ==
    IF k > Len(s) THEN (IF Len(sc) > 0 THEN Append(ss, sc) ELSE ss)
    ELSE IF s[k] \in Separators
         THEN Tokens(s, k + 1, IF Len(sc) > 0 THEN Append(ss, sc) ELSE ss,
                     IF s[k] = "-" THEN <<"-">> ELSE <<>>)
         ELSE Tokens(s, k + 1, ss, Append(sc, s[k]))

\* the names of the rules: ev, ev0, ev1, ... and HASH_EXCLUDE<i>
RuleName(base, n) == [base |-> base, n |-> n]
Bare == -1

\* the inclusion rules as if all were numbered: ev0, ev1, ...
InclusionTagNumbered(i) == i

\* NewHashDebug, lines 620-625: the i-th inclusion rule (from 0) is named ev,
\* then ev0, ev1, ...
InclusionTag(i) == IF i = 0 THEN Bare ELSE i - 1

RECURSIVE Rules(_, _, _, _)
\* NewHashDebug, lines 610-631: the rules of tokens ss[k..], i inclusions so far
Rules(ss, k, i, hd) ==
    IF k > Len(ss) THEN hd
    ELSE LET s == ss[k] IN
         IF s = <<>>
         THEN IF i # 0 \/ (Len(ss) > 1 /\ ss[2] # <<>>) \/ Len(ss) > 2
              THEN [hd EXCEPT !.bad = TRUE]
              ELSE [hd EXCEPT !.matches = hd.matches
                        \o <<toHashAndMask(<<"0">>, RuleName("ev", 0)),
                             toHashAndMask(<<"1">>, RuleName("ev", 1))>>]
         ELSE IF s[1] = "-"
         THEN Rules(ss, k + 1, i,
                    [hd EXCEPT !.excludes =
                        Append(hd.excludes, toHashAndMask(Tail(s), RuleName("HASH_EXCLUDE", i)))])
         ELSE Rules(ss, k + 1, i + 1,
                    [hd EXCEPT !.matches =
                        Append(hd.matches,
                               toHashAndMask(s, RuleName("ev", InclusionTag(i))))])

EmptyHashDebug ==
    [nil |-> FALSE, yes |-> FALSE, no |-> FALSE, matches |-> <<>>, excludes |-> <<>>,
     bad |-> FALSE]

\* the empty value as if it refused every site
NilAsNo == [EmptyHashDebug EXCEPT !.no = TRUE]

\* NewHashDebug, lines 573-575: no rule set for the empty value
NilHashDebug == [EmptyHashDebug EXCEPT !.nil = TRUE]

\* NewHashDebug(ev, s): nil for the empty value; bad stands for a panic
NewHashDebug(s) ==
    IF Len(s) = 0 THEN NilHashDebug
    ELSE IF s[1] \in {"y", "Y"} THEN [EmptyHashDebug EXCEPT !.yes = TRUE]
    ELSE IF s[1] \in {"n", "N"} THEN [EmptyHashDebug EXCEPT !.no = TRUE]
    ELSE The({[hd EXCEPT !.bad = hd.bad
                        \/ (\E k \in 1..Len(hd.matches) : hd.matches[k].bad)
                        \/ (\E k \in 1..Len(hd.excludes) : hd.excludes[k].bad)] :
                hd \in {Rules(ss, 1, 0, EmptyHashDebug) : ss \in {Tokens(s, 1, <<>>, <<>>)}}})

\* a hash h matches if (h^hash)&mask == 0
RuleMatches(m, hash) == \E x \in {BitXor(m.hash, hash)} : BitAnd(x, m.mask) = 0

NoLog == RuleName("", Bare)

\* DebugHashMatchParam as if a hash had to match every inclusion rule
DebugHashMatchAll(d, hash) ==
    IF d.nil THEN [ret |-> TRUE, log |-> NoLog]
    ELSE IF d.no THEN [ret |-> FALSE, log |-> NoLog]
    ELSE IF \E k \in 1..Len(d.excludes) : RuleMatches(d.excludes[k], hash)
    THEN [ret |-> FALSE, log |-> NoLog]
    ELSE IF Len(d.matches) = 0 \/ d.yes
    THEN [ret |-> TRUE, log |-> RuleName("ev", Bare)]
    ELSE IF \A k \in 1..Len(d.matches) : RuleMatches(d.matches[k], hash)
    THEN [ret |-> TRUE, log |-> d.matches[1].name]
    ELSE [ret |-> FALSE, log |-> NoLog]

\* DebugHashMatchParam with the exclusions tested after the inclusions
DebugHashMatchLate(d, hash) ==
    IF d.nil THEN [ret |-> TRUE, log |-> NoLog]
    ELSE IF d.no THEN [ret |-> FALSE, log |-> NoLog]
    ELSE IF Len(d.matches) = 0 \/ d.yes
    THEN [ret |-> TRUE, log |-> RuleName("ev", Bare)]
    ELSE IF \E k \in 1..Len(d.matches) : RuleMatches(d.matches[k], hash)
    THEN LET k == CHOOSE k \in 1..Len(d.matches) :
                    /\ RuleMatches(d.matches[k], hash)
                    /\ \A j \in 1..(k - 1) : ~RuleMatches(d.matches[j], hash)
         IN [ret |-> TRUE, log |-> d.matches[k].name]
    ELSE [ret |-> FALSE, log |-> NoLog]

\* DebugHashMatchParam, lines 673-702, given hash = hashOf(pkgAndName, param):
\* ret is the decision, log the name logDebugHashMatch is called with
DebugHashMatchParam(d, hash) ==
    IF d.nil THEN [ret |-> TRUE, log |-> NoLog]
    ELSE IF d.no THEN [ret |-> FALSE, log |-> NoLog]
    ELSE IF \E k \in 1..Len(d.excludes) : RuleMatches(d.excludes[k], hash)
    THEN [ret |-> FALSE, log |-> NoLog]
    ELSE IF Len(d.matches) = 0 \/ d.yes
    THEN [ret |-> TRUE, log |-> RuleName("ev", Bare)]
    ELSE IF \E k \in 1..Len(d.matches) : RuleMatches(d.matches[k], hash)
    THEN LET k == CHOOSE k \in 1..Len(d.matches) :
                    /\ RuleMatches(d.matches[k], hash)
                    /\ \A j \in 1..(k - 1) : ~RuleMatches(d.matches[j], hash)
         IN [ret |-> TRUE, log |-> d.matches[k].name]
    ELSE [ret |-> FALSE, log |-> NoLog]

-----------------------------------------------------------------------------
(* Trial outcomes *)

FAILED == 0
DONE == 1
DONE0 == 2
PASSED == 3
PASSED0 == 4

Results == {FAILED, DONE, DONE0, PASSED, PASSED0}

\* first_result outside an iteration of search
NoResult == -1

\* trySuffix with DONE and DONE0 exchanged
ClassifySwapped(err, count) ==
    IF err
    THEN IF count <= 1 THEN (IF count = 0 THEN DONE ELSE DONE0) ELSE FAILED
    ELSE IF count = 0 THEN PASSED0 ELSE PASSED

\* trySuffix, lines 369-389: err is (error != nil), count is len(m)
Classify(err, count) ==
    IF err
    THEN IF count <= 1 THEN (IF count = 0 THEN DONE0 ELSE DONE) ELSE FAILED
    ELSE IF count = 0 THEN PASSED0 ELSE PASSED

\* the subject program: test of fail.go, lines 747-765, run with the value s of
\* the variable. It fails when doit is true for threshold or more of the special
\* sites (4 or more of the three-letter names); lines are the triggers it logs.
test(s) ==
    LET threeletters(doit) == Cardinality({site \in special : doit[site].ret})
        run(doit) ==
            [err |-> threeletters(doit) >= threshold,
             lines |-> {[name |-> doit[site].log, site |-> site.name, hash |-> site.hash] :
                          site \in {x \in universe : doit[x].ret /\ doit[x].log # NoLog}}]
    IN The(UNION {IF hd.bad THEN {[err |-> TRUE, lines |-> {}]}
                  ELSE {run(doit) :
                          doit \in {[site \in universe |-> DebugHashMatchParam(hd, site.hash)]}} :
                    hd \in {NewHashDebug(s)}})

\* matchTrigger, lines 254-316: the keys of the map m. A line counts when it
\* holds "<hash_ev_name> triggered" or, with bisectSyntax, when it holds
\* "[bisect-match " and its hash agrees with suffix; the key is the hash token.
matchTrigger(lines, sfx) ==
    LET mask == Pow2(Len(sfx)) - 1
        suffixVal == BitAnd(ParseBinary(sfx), mask)
    IN IF bisectSyntax
       THEN {l.hash : l \in {x \in lines : BitAnd(x.hash, mask) = suffixVal}}
       ELSE {l.hash : l \in {x \in lines : x.name = RuleName("ev", Bare)}}

\* the exclusions and the rules a trial of sfx with hs puts in the variable
TrialKey(xs, sfx, hs, withExcludes) ==
    [xs |-> IF withExcludes THEN xs ELSE <<>>, primary |-> sfx,
     rules |-> {sfx} \cup {hs[k] : k \in 1..Len(hs)}]

\* a deterministic test command: the exit status is a function of the exclusions
\* and the set of rules, the triggers counted a function of these and of the
\* primary rule; with monotone, failing under a set of rules it fails under
\* every larger one
Determined(key, run) ==
    \A m \in memo :
        /\ (m.xs = key.xs /\ m.rules = key.rules) => m.err = run.err
        /\ (m.xs = key.xs /\ m.rules = key.rules /\ m.primary = key.primary)
               => m.count = run.count
        /\ (monotone /\ m.xs = key.xs /\ m.rules \subseteq key.rules /\ m.err) => run.err
        /\ (monotone /\ m.xs = key.xs /\ key.rules \subseteq m.rules /\ ~m.err) => ~run.err

\* the numbers of triggers trySuffix tells apart: none, one, more than one
Counts == {0, 1, MaxCount}

\* tryCmd and matchTrigger as trySuffix uses them, lines 347-364: what one run
\* of the test command gives, (error != nil) and len(m)
TrialRuns(xs, sfx, hs, withExcludes) ==
    CASE mode = "adv" -> [err : BOOLEAN, count : 0..MaxCount]
      [] mode = "memo" ->
           {run \in [err : BOOLEAN, count : Counts] :
              Determined(TrialKey(xs, sfx, hs, withExcludes), run)}
      [] OTHER ->
           {[err |-> run.err, count |-> Cardinality(matchTrigger(run.lines, sfx))] :
              run \in {test(s) : s \in {newStyleEnvString(xs, sfx, hs, withExcludes)}}}

NoTrial == [err |-> FALSE, count |-> 0, result |-> NoResult, ev |-> <<>>]

\* what the test command has shown of itself with one more trial
Remembered(xs, sfx, hs, withExcludes, run) ==
    IF mode = "memo"
    THEN memo \cup {[xs |-> TrialKey(xs, sfx, hs, withExcludes).xs, primary |-> sfx,
                     rules |-> TrialKey(xs, sfx, hs, withExcludes).rules,
                     err |-> run.err, count |-> run.count]}
    ELSE memo

\* history kept with every trySuffix(sfx); ev is the value tryCmd, line 165,
\* puts in the environment
Logged(sfx, hs, run) ==
    LET r == Classify(run.err, run.count) IN
    /\ last' = [err |-> run.err, count |-> run.count, result |-> r,
                ev |-> newStyleEnvString(excludes, sfx, hs, ~withoutExcludes)]
    /\ memo' = Remembered(excludes, sfx, hs, ~withoutExcludes, run)
    /\ doneSet' = IF run.err /\ run.count = 1 THEN doneSet \cup {sfx} ELSE doneSet

-----------------------------------------------------------------------------
(* Initial states *)

\* filtered before filter has run to its end
NotFiltered == {<<>>}

\* probe while no variable has been handed over
NoProbe == [env |-> <<>>, hd |-> EmptyHashDebug, hd1 |-> EmptyHashDebug,
            before |-> FALSE, after |-> FALSE, x |-> 0, log |-> NoLog, fails |-> FALSE]

\* tryCmd before the command is started
NoCmd ==
    [child |-> "none", status |-> FALSE, lines |-> 0, t |-> 0, timeoutMeansPass |-> FALSE,
     elapsed |-> 0, timer |-> "none", timedOut |-> FALSE, sigint |-> FALSE,
     sigkill |-> FALSE, polls |-> 0, done |-> FALSE, err |-> FALSE, startErr |-> FALSE,
     result |-> NoResult, liveAtExpiry |-> FALSE, liveAtInterrupt |-> FALSE,
     sent |-> <<>>]

\* matchTrigger with no output to scan
NoTrig == [output |-> <<>>, i |-> 1, m |-> <<>>, lastTrigger |-> ""]

InitCommon ==
    /\ pc = "main_loop"
    /\ excludes = <<>>
    /\ suffix = <<>>
    /\ hashes = <<>>
    /\ next_singleton_hash_index = 0
    /\ withoutExcludes = FALSE
    /\ confirmed_suffix = <<>>
    /\ restart_suffix = <<>>
    /\ first_result = NoResult
    /\ searchResult = FALSE
    /\ temporarily_removed = <<>>
    /\ fi = 0
    /\ sss = <<>>
    /\ printed = ""
    /\ exitCode = -1
    /\ last = NoTrial
    /\ memo = {}
    /\ filtered = NotFiltered
    /\ probe = NoProbe
    /\ timeout = 0
    /\ cmd = NoCmd
    /\ trig = NoTrig
    /\ doneSet = {}
    /\ sawDone0 = FALSE

\* main, lines 554-557: -R hyz gives restartSuffix = h and initialSuffix = yz.
\* The test command is arbitrary: every trial can have every outcome.
Init ==
    /\ InitCommon
    /\ mode = "adv"
    /\ restartSuffix \in {<<"0">>, <<"1">>}
    /\ initialSuffix = Repeat("0", InitialLen)
    /\ multiple = 1
    /\ multiple0 = multiple
    /\ batchExclude = FALSE
    /\ bisectSyntax = FALSE
    /\ monotone = FALSE
    /\ universe = {}
    /\ special = {}
    /\ threshold = 0

\* a site of the subject program; hashOf(name, param) is given, not computed
Site(h) == [name |-> h, hash |-> h]

\* two sites whose hashes agree in their low hashLimit bits
CollidingUniverses ==
    {{Site(h), Site(h + Pow2(hashLimit))} : h \in 0..(Pow2(HashBits) - 1)}

\* the universes: at most MaxSites sites with distinct small hashes, or two
\* sites that no suffix of hashLimit bits tells apart
Universes ==
    {U \in SUBSET {Site(h) : h \in 0..(Pow2(HashBits) - 1)} : Cardinality(U) \in 1..MaxSites}
        \cup CollidingUniverses

\* gossahash run on the subject program of fail.go from the empty suffix: the
\* test command is deterministic and fails iff at least threshold of the
\* special sites trigger
InitDet ==
    /\ InitCommon
    /\ mode = "det"
    /\ restartSuffix = <<>>
    /\ initialSuffix = <<>>
    /\ multiple = 1
    /\ multiple0 = multiple
    /\ batchExclude = FALSE
    /\ bisectSyntax = FALSE
    /\ monotone = TRUE
    /\ universe \in Universes
    /\ special \in (SUBSET universe) \ {{}}
    /\ threshold \in 1..Cardinality(special)

-----------------------------------------------------------------------------
(* searchState.search *)

\* main, line 559: the call ss.search(initialSuffix, restartSuffix)
main_search ==
    /\ pc = "main_loop"
    /\ confirmed_suffix' = initialSuffix
    /\ restart_suffix' = restartSuffix
    /\ sawDone0' = FALSE
    /\ pc' = "search_A"
    /\ UNCHANGED <<flags, cmd, trig, filtered, probe, multiple, excludes, suffix, hashes, next_singleton_hash_index,
                   withoutExcludes, first_result, searchResult, temporarily_removed, fi,
                   sss, printed, exitCode, last, memo, doneSet>>

\* search, line 720, with <= for <
WithinLimitOffByOne(cs) == Len(cs) <= hashLimit

\* search, line 720: the loop condition
WithinLimit(cs) == Len(cs) < hashLimit

\* search, as if every entry of hashes were always a proven singleton
FullyReducedAlways(index, hs) == TRUE

\* search, lines 747, 785 and 793: all confirmed searches have yielded singletons
FullyReduced(index, hs) == index = Len(hs)

\* search, lines 720 and 805: the loop condition fails, return false
search_limit ==
    /\ pc = "search_A"
    /\ ~WithinLimit(confirmed_suffix)
    /\ searchResult' = FALSE
    /\ pc' = "search_ret"
    /\ UNCHANGED <<flags, cmd, trig, filtered, probe, multiple, excludes, suffix, hashes, next_singleton_hash_index,
                   withoutExcludes, confirmed_suffix, restart_suffix, first_result,
                   temporarily_removed, fi, sss, printed, exitCode, last, memo, doneSet,
                   sawDone0>>

\* search, as if a FAILED trial left confirmed_suffix as it was
NarrowedNot(tried, cs) == cs

\* search, lines 734 and 762: confirmed_suffix = ss.suffix after a FAILED trial
Narrowed(tried, cs) == tried

\* search, as if a proven singleton left next_singleton_hash_index as it was
AdvancedNot(index) == index

\* search, lines 755 and 801: ss.next_singleton_hash_index++
Advanced(index) == index + 1

\* search, as if Trial B passing with triggers were enough to split
BothPassedLoose(first, r) == r = PASSED

\* search, lines 765-766: Trial B is PASSED and first_result == PASSED
BothPassed(first, r) == r = PASSED /\ first = PASSED

\* search, as if Trial B chose among all the positions of hashes
SwapCandidatesAll(index, n) == 1..n

\* search, line 797: j := rand.Intn(len(ss.hashes)-index) + index, as a
\* position counted from 1
SwapCandidates(index, n) == (index + 1)..n

\* search, as if the flaky branch gave up every entry of hashes
PoppedAll(hs) == <<>>

\* search, as if the entry taken back as confirmed_suffix stayed in hashes
PoppedNot(hs) == hs

\* search, line 789: ss.hashes = ss.hashes[0 : len(ss.hashes)-1]
Popped(hs) == SubSeq(hs, 1, Len(hs) - 1)

\* search, line 724: whether a and b are exchanged (coin is 0 == 8192&rand.Int())
SwapAB(hint, coin) == (hint = <<>> /\ coin) \/ hint = <<"1">>

\* search, lines 720-757: one iteration up to the end of the first switch
search_A ==
    /\ pc = "search_A"
    /\ WithinLimit(confirmed_suffix)
    /\ \E coin \in BOOLEAN :
         LET swap == SwapAB(restart_suffix, coin)
             a == IF swap THEN "1" ELSE "0"
             tried == <<a>> \o confirmed_suffix
         IN
         /\ restart_suffix' = IF swap THEN <<>> ELSE restart_suffix
         /\ \E run \in TrialRuns(excludes, tried, hashes, ~withoutExcludes) :
              LET r == Classify(run.err, run.count) IN
              /\ Logged(tried, hashes, run)
              /\ suffix' = tried
              /\ sawDone0' = (sawDone0 \/ r = DONE0)
              /\ CASE r = FAILED ->
                        /\ confirmed_suffix' = Narrowed(tried, confirmed_suffix)
                        /\ first_result' = NoResult
                        /\ pc' = "search_A"
                        /\ UNCHANGED <<hashes, next_singleton_hash_index, searchResult>>
                   [] r = DONE /\ FullyReduced(next_singleton_hash_index, hashes) ->
                        /\ searchResult' = TRUE
                        /\ first_result' = r
                        /\ pc' = "search_ret"
                        /\ UNCHANGED <<hashes, next_singleton_hash_index, confirmed_suffix>>
                   [] r = DONE /\ ~FullyReduced(next_singleton_hash_index, hashes) ->
                        /\ confirmed_suffix' = hashes[next_singleton_hash_index + 1]
                        /\ hashes' = [hashes EXCEPT ![next_singleton_hash_index + 1] = tried]
                        /\ next_singleton_hash_index' = Advanced(next_singleton_hash_index)
                        /\ first_result' = NoResult
                        /\ pc' = "search_A"
                        /\ UNCHANGED searchResult
                   [] OTHER ->
                        /\ first_result' = r
                        /\ pc' = "search_B"
                        /\ UNCHANGED <<hashes, next_singleton_hash_index, confirmed_suffix,
                                       searchResult>>
    /\ UNCHANGED <<flags, cmd, trig, filtered, probe, multiple, excludes, withoutExcludes, temporarily_removed, fi,
                   sss, printed, exitCode>>

\* search, lines 760-803: the second trial of an iteration and its switch.
\* coin is 0 == 8192&rand.Int() of line 773, j the rand.Intn of line 797.
search_B ==
    /\ pc = "search_B"
    /\ LET a == suffix[1]
           b == IF a = "0" THEN "1" ELSE "0"
           tried == <<b>> \o confirmed_suffix
           n == Len(hashes)
       IN
       \E run \in TrialRuns(excludes, tried, hashes, ~withoutExcludes) :
         LET r == Classify(run.err, run.count) IN
         /\ Logged(tried, hashes, run)
         /\ suffix' = tried
         /\ sawDone0' = (sawDone0 \/ r = DONE0)
         /\ CASE r = FAILED ->
                   /\ confirmed_suffix' = Narrowed(tried, confirmed_suffix)
                   /\ first_result' = NoResult
                   /\ pc' = "search_A"
                   /\ UNCHANGED <<hashes, next_singleton_hash_index, searchResult>>
              [] BothPassed(first_result, r) ->
                   \E coin \in BOOLEAN :
                     LET a2 == IF coin THEN b ELSE a
                         b2 == IF coin THEN a ELSE b
                     IN
                     /\ hashes' = Append(hashes, <<b2>> \o confirmed_suffix)
                     /\ confirmed_suffix' = <<a2>> \o confirmed_suffix
                     /\ first_result' = NoResult
                     /\ pc' = "search_A"
                     /\ UNCHANGED <<next_singleton_hash_index, searchResult>>
              [] (r = PASSED /\ first_result # PASSED) \/ r = PASSED0 \/ r = DONE0 ->
                   IF FullyReduced(next_singleton_hash_index, hashes)
                   THEN /\ searchResult' = FALSE
                        /\ pc' = "search_ret"
                        /\ UNCHANGED <<hashes, next_singleton_hash_index, confirmed_suffix,
                                       first_result>>
                   ELSE /\ confirmed_suffix' = hashes[n]
                        /\ hashes' = Popped(hashes)
                        /\ first_result' = NoResult
                        /\ pc' = "search_A"
                        /\ UNCHANGED <<next_singleton_hash_index, searchResult>>
              [] r = DONE ->
                   IF FullyReduced(next_singleton_hash_index, hashes)
                   THEN /\ searchResult' = TRUE
                        /\ pc' = "search_ret"
                        /\ UNCHANGED <<hashes, next_singleton_hash_index, confirmed_suffix,
                                       first_result>>
                   ELSE \E j \in SwapCandidates(next_singleton_hash_index, n) :
                          /\ confirmed_suffix' = hashes[j]
                          /\ hashes' = [[hashes EXCEPT ![j] = hashes[next_singleton_hash_index + 1]]
                                           EXCEPT ![next_singleton_hash_index + 1] = tried]
                          /\ next_singleton_hash_index' = Advanced(next_singleton_hash_index)
                          /\ first_result' = NoResult
                          /\ pc' = "search_A"
                          /\ UNCHANGED searchResult
    /\ UNCHANGED <<flags, cmd, trig, filtered, probe, multiple, excludes, withoutExcludes, restart_suffix,
                   temporarily_removed, fi, sss, printed, exitCode>>

-----------------------------------------------------------------------------
(* main and searchState.filter *)

\* a fresh searchState handed to finish: sss holds a pointer, so finish sees the
\* fields as filter left them
Found == [suffix |-> suffix, hashes |-> hashes]

\* the parameters and locals of search after it has returned
SearchLocalsDead ==
    /\ confirmed_suffix' = <<>>
    /\ restart_suffix' = <<>>
    /\ first_result' = NoResult
    /\ sawDone0' = FALSE

\* main, lines 559-561 and 586-591: search returned false; main prints, leaves
\* the loop, runs finish on the earlier results and returns
main_search_failed ==
    /\ pc = "search_ret"
    /\ ~searchResult
    /\ printed' = "FLAKY"
    /\ excludes' = <<>>
    /\ exitCode' = 0
    /\ pc' = "exit"
    /\ SearchLocalsDead
    /\ UNCHANGED <<flags, cmd, trig, filtered, probe, multiple, suffix, hashes, next_singleton_hash_index,
                   withoutExcludes, searchResult, temporarily_removed, fi, sss, last, memo,
                   doneSet>>

\* filter, lines 604-616 and 656-658: filter starts by taking the last entry of
\* hashes out; without hashes it does nothing
filter_enter ==
    IF Len(hashes) > 0
    THEN /\ temporarily_removed' = hashes[Len(hashes)]
         /\ hashes' = SubSeq(hashes, 1, Len(hashes) - 1)
         /\ fi' = Len(hashes) - 1
         /\ pc' = "filter_loop"
    ELSE /\ pc' = "main_post_filter"
         /\ UNCHANGED <<temporarily_removed, hashes, fi>>

\* main, lines 562-567: search returned true; filter is called
main_search_ok ==
    /\ pc = "search_ret"
    /\ searchResult
    /\ withoutExcludes' = TRUE
    /\ filter_enter
    /\ SearchLocalsDead
    /\ UNCHANGED <<flags, cmd, trig, filtered, probe, multiple, excludes, suffix, next_singleton_hash_index,
                   searchResult, sss, printed, exitCode, last, memo, doneSet>>

\* filter, as if the entry found unnecessary stayed the one taken out
NextCandidateSame(removed, hs) == removed

\* filter, line 646: temporarily_removed = ss.hashes[len(ss.hashes)-1]
NextCandidate(removed, hs) == hs[Len(hs)]

\* filter, lines 620-649: one iteration of the loop
filter_iter ==
    /\ pc = "filter_loop"
    /\ fi >= -1 /\ Len(hashes) > 0
    /\ LET t == temporarily_removed
           temp1 == IF fi = -1 THEN suffix
                    ELSE IF fi < Len(hashes) THEN hashes[fi + 1] ELSE t
           suffix1 == IF fi = -1 THEN t ELSE suffix
           hashes1 == IF fi # -1 /\ fi < Len(hashes)
                      THEN [hashes EXCEPT ![fi + 1] = t] ELSE hashes
           n == Len(hashes1)
       IN
       \E run \in TrialRuns(excludes, suffix1, hashes1, ~withoutExcludes) :
         LET r == Classify(run.err, run.count) IN
         /\ Logged(suffix1, hashes1, run)
         /\ CASE r = DONE0 /\ n > 1 ->
                   /\ temporarily_removed' = <<>>
                   /\ suffix' = hashes1[n]
                   /\ hashes' = <<>>
                   /\ fi' = fi - 1
                   /\ UNCHANGED <<pc, exitCode>>
              [] r = DONE0 /\ ~(n > 1) ->
                   \* line 642 reads hashes[len(hashes)-2]
                   IF n - 2 >= 0
                   THEN /\ suffix' = hashes1[n]
                        /\ temporarily_removed' = hashes1[n - 1]
                        /\ hashes' = SubSeq(hashes1, 1, n - 2)
                        /\ fi' = fi - 1
                        /\ UNCHANGED <<pc, exitCode>>
                   ELSE /\ suffix' = hashes1[n]
                        /\ temporarily_removed' = temp1
                        /\ hashes' = hashes1
                        /\ fi' = fi
                        /\ pc' = "panic"
                        /\ exitCode' = PanicExit
              [] r \in {DONE, FAILED} ->
                   /\ temporarily_removed' = NextCandidate(temp1, hashes1)
                   /\ hashes' = SubSeq(hashes1, 1, n - 1)
                   /\ suffix' = suffix1
                   /\ fi' = fi - 1
                   /\ UNCHANGED <<pc, exitCode>>
              [] OTHER ->
                   /\ temporarily_removed' = temp1
                   /\ hashes' = hashes1
                   /\ suffix' = suffix1
                   /\ fi' = fi - 1
                   /\ UNCHANGED <<pc, exitCode>>
    /\ UNCHANGED <<flags, cmd, trig, filtered, probe, multiple, excludes, next_singleton_hash_index, withoutExcludes,
                   confirmed_suffix, restart_suffix, first_result, searchResult, sss,
                   printed, sawDone0>>

\* filter, as if the entry still taken out were forgotten
PutBackForgotten(hs, t) == hs

\* filter, lines 650-652: the entry still taken out is appended
PutBack(hs, t) == IF t # <<>> THEN Append(hs, t) ELSE hs

\* filter, lines 620 and 650-655: the loop ends; the entry still taken out is
\* put back and the confirming trial runs
filter_finish ==
    /\ pc = "filter_loop"
    /\ ~(fi >= -1 /\ Len(hashes) > 0)
    /\ LET hashes1 == PutBack(hashes, temporarily_removed)
       IN
       /\ hashes' = hashes1
       /\ \E run \in TrialRuns(excludes, suffix, hashes1, ~withoutExcludes) :
            LET r == Classify(run.err, run.count) IN
            Logged(suffix, hashes1, run)
    /\ pc' = "main_post_filter"
    /\ UNCHANGED <<flags, cmd, trig, filtered, probe, multiple, excludes, suffix, next_singleton_hash_index,
                   withoutExcludes, confirmed_suffix, restart_suffix, first_result,
                   searchResult, temporarily_removed, fi, sss, printed, exitCode,
                   sawDone0>>

\* main, line 570, as if the loop ended once multiple had passed 0
LoopEndsLate(m) == m < 0

\* main, line 570: the loop ends when the decremented multiple is 0
LoopEnds(m) == m = 0

\* main, as if -BX were never given
ExcludedSuffixOnly(xs, sfx, hs) == Append(xs, sfx)

\* main, lines 573-576: the suffix found is excluded and, with batchExclude,
\* every entry of hashes
Excluded(xs, sfx, hs) == Append(xs, sfx) \o (IF batchExclude THEN hs ELSE <<>>)

\* main, as if only a check trial that logged a trigger ended the loop
CheckPassedTriggered(r) == r = PASSED

\* main, line 579: result == PASSED || result == PASSED0
CheckPassed(r) == r = PASSED \/ r = PASSED0

\* main, lines 569-582 and 586-591: after filter; either the loop ends and main
\* returns, or the result is excluded and the check trial of a fresh searchState
\* decides whether another search starts
main_post_filter ==
    /\ pc = "main_post_filter"
    /\ multiple' = multiple - 1
    /\ sss' = Append(sss, Found)
    /\ IF LoopEnds(multiple - 1)
       THEN /\ excludes' = <<>>
            /\ exitCode' = 0
            /\ pc' = "exit"
            /\ UNCHANGED <<suffix, hashes, next_singleton_hash_index, withoutExcludes,
                           printed, last, memo, doneSet>>
       ELSE /\ Len(sss) + 1 < MaxMultiple
            /\ LET excludes1 == Excluded(excludes, suffix, hashes)
               IN
               \E run \in TrialRuns(excludes1, initialSuffix, <<>>, TRUE) :
                 LET r == Classify(run.err, run.count) IN
                 /\ last' = [err |-> run.err, count |-> run.count, result |-> r,
                             ev |-> newStyleEnvString(excludes1, initialSuffix, <<>>, TRUE)]
                 /\ memo' = Remembered(excludes1, initialSuffix, <<>>, TRUE, run)
                 /\ doneSet' = IF run.err /\ run.count = 1 THEN {initialSuffix} ELSE {}
                 /\ suffix' = initialSuffix
                 /\ hashes' = <<>>
                 /\ next_singleton_hash_index' = 0
                 /\ withoutExcludes' = FALSE
                 /\ IF CheckPassed(r)
                    THEN /\ printed' = "NO MORE"
                         /\ excludes' = <<>>
                         /\ exitCode' = 0
                         /\ pc' = "exit"
                    ELSE /\ excludes' = excludes1
                         /\ pc' = "main_loop"
                         /\ UNCHANGED <<printed, exitCode>>
    /\ UNCHANGED <<flags, cmd, trig, filtered, probe, confirmed_suffix, restart_suffix, first_result, searchResult,
                   temporarily_removed, fi, sawDone0>>

Next ==
    \/ main_search
    \/ search_limit
    \/ search_A
    \/ search_B
    \/ main_search_failed
    \/ main_search_ok
    \/ filter_iter
    \/ filter_finish
    \/ main_post_filter

Spec == Init /\ [][Next]_vars

SpecDet == InitDet /\ [][Next]_vars

\* gossahash on the subject program of fail.go with any -n from 0 (no limit)
\* on, and -BX or not; every site counts towards failure
InitMulti ==
    /\ InitCommon
    /\ mode = "det"
    /\ restartSuffix = <<>>
    /\ initialSuffix = <<>>
    /\ multiple \in 0..MaxMultiple
    /\ multiple0 = multiple
    /\ batchExclude \in BOOLEAN
    /\ bisectSyntax = FALSE
    /\ monotone = TRUE
    /\ universe \in Universes
    /\ special = universe
    /\ threshold \in 1..Cardinality(special)

SpecMulti == InitMulti /\ [][Next]_vars

\* one site more than MaxSites, with the smallest hashes
ExclSites == {Site(h) : h \in 0..MaxSites}

\* gossahash on the subject program of fail.go with MaxSites + 1 sites (or one
\* site, or two, or two that no suffix tells apart), any threshold up to
\* MaxSites, any -n and -BX or not: with the threshold MaxSites a second search
\* and its filter run with an exclusion in force; with one or two sites the
\* check trial finds no site or one site left
InitExcl ==
    /\ InitCommon
    /\ mode = "det"
    /\ restartSuffix = <<>>
    /\ initialSuffix = <<>>
    /\ multiple \in 0..MaxMultiple
    /\ multiple0 = multiple
    /\ batchExclude \in BOOLEAN
    /\ bisectSyntax = FALSE
    /\ monotone = TRUE
    /\ universe \in {ExclSites, {Site(0), Site(Pow2(hashLimit))},
                      {Site(0)}, {Site(0), Site(1)}}
    /\ special = universe
    /\ threshold \in 1..Cardinality(special) \ {MaxSites + 1}

SpecExcl == InitExcl /\ [][Next]_vars

\* search with an arbitrary test command, every trial of which ends (tryCmd
\* returns when the command exits or the watchdog has killed it): the driver is
\* one goroutine and takes its next step whenever it has one
SpecFair == Init /\ [][Next]_vars /\ WF_vars(Next)

\* main runs to its end: no step of the driver waits on anything but the test
\* command, which tryCmd kills after timeout seconds
SpecDetFair == InitDet /\ [][Next]_vars /\ WF_vars(Next)

-----------------------------------------------------------------------------
(* filter by itself, called a second time *)

\* pairwise distinct binary strings, none a suffix of another
Entry(k) == <<"0">> \o Repeat("1", k)

\* a searchState as search leaves it when it returns true, with a test command
\* that is deterministic: suffix and the entries of hashes were each found
\* DONE, the last of them in the trial of suffix with all of hashes
InitFilter ==
    /\ mode = "memo"
    /\ monotone \in BOOLEAN
    /\ bisectSyntax = FALSE
    /\ initialSuffix = <<>>
    /\ restartSuffix = <<>>
    /\ batchExclude = FALSE
    /\ universe = {}
    /\ special = {}
    /\ threshold = 0
    /\ multiple = 1
    /\ multiple0 = multiple
    /\ pc = "search_ret"
    /\ searchResult = TRUE
    /\ excludes = <<>>
    /\ suffix = Entry(0)
    /\ \E n \in 0..MaxHashes :
         /\ hashes = [k \in 1..n |-> Entry(k)]
         /\ next_singleton_hash_index = n
         /\ doneSet = {Entry(k) : k \in 0..n}
         /\ memo = {[xs |-> <<>>, primary |-> Entry(0), rules |-> {Entry(k) : k \in 0..n},
                     err |-> TRUE, count |-> 1]}
    /\ last = [err |-> TRUE, count |-> 1, result |-> DONE,
               ev |-> newStyleEnvString(excludes, suffix, hashes, TRUE)]
    /\ withoutExcludes = FALSE
    /\ confirmed_suffix = <<>>
    /\ restart_suffix = <<>>
    /\ first_result = NoResult
    /\ temporarily_removed = <<>>
    /\ fi = 0
    /\ sss = <<>>
    /\ printed = ""
    /\ exitCode = -1
    /\ filtered = NotFiltered
    /\ probe = NoProbe
    /\ timeout = 0
    /\ cmd = NoCmd
    /\ trig = NoTrig
    /\ sawDone0 = FALSE

\* filter called once more on the searchState a first call of filter has left
filter_again ==
    /\ pc = "main_post_filter"
    /\ filtered = NotFiltered
    /\ filtered' = {suffix} \cup {hashes[k] : k \in 1..Len(hashes)}
    /\ filter_enter
    /\ UNCHANGED <<flags, cmd, trig, probe, multiple, excludes, suffix, next_singleton_hash_index,
                   withoutExcludes, confirmed_suffix, restart_suffix, first_result,
                   searchResult, sss, printed, exitCode, last, memo, doneSet, sawDone0>>

NextFilter ==
    \/ main_search_ok
    \/ filter_iter
    \/ filter_finish
    \/ filter_again
    \/ main_post_filter

SpecFilter == InitFilter /\ [][NextFilter]_vars

\* filter with a test command of which nothing is assumed but that it gives
\* the same result when it is run again with the same rules
InitFilterAny == InitFilter /\ ~monotone

SpecFilterAny == InitFilterAny /\ [][NextFilter]_vars

\* the binary strings of HashBits digits: each is the hash of one site
SiteStrings == [1..HashBits -> Bit]

\* a searchState as search leaves it when it returns true, the test command
\* being the deterministic test of fail.go from then on: any suffix and hashes,
\* all different, with which the trial of suffix and all of hashes is DONE
InitFilterDet ==
    /\ mode = "det"
    /\ monotone = TRUE
    /\ bisectSyntax = FALSE
    /\ initialSuffix = <<>>
    /\ restartSuffix = <<>>
    /\ batchExclude = FALSE
    /\ universe = {Site(h) : h \in 0..(Pow2(HashBits) - 1)}
    /\ special = universe
    /\ threshold \in {1, 2}
    /\ multiple = 1
    /\ multiple0 = multiple
    /\ pc = "search_ret"
    /\ searchResult = TRUE
    /\ excludes = <<>>
    /\ suffix \in SiteStrings
    /\ hashes \in UNION {[1..n -> SiteStrings] : n \in 0..MaxHashes}
    /\ Cardinality({suffix} \cup {hashes[k] : k \in 1..Len(hashes)}) = 1 + Len(hashes)
    /\ next_singleton_hash_index = Len(hashes)
    /\ doneSet = {suffix} \cup {hashes[k] : k \in 1..Len(hashes)}
    /\ memo = {}
    /\ \E run \in TrialRuns(excludes, suffix, hashes, TRUE) :
         /\ Classify(run.err, run.count) = DONE
         /\ last = [err |-> run.err, count |-> run.count, result |-> DONE,
                    ev |-> newStyleEnvString(excludes, suffix, hashes, TRUE)]
    /\ withoutExcludes = FALSE
    /\ confirmed_suffix = <<>>
    /\ restart_suffix = <<>>
    /\ first_result = NoResult
    /\ temporarily_removed = <<>>
    /\ fi = 0
    /\ sss = <<>>
    /\ printed = ""
    /\ exitCode = -1
    /\ filtered = NotFiltered
    /\ probe = NoProbe
    /\ timeout = 0
    /\ cmd = NoCmd
    /\ trig = NoTrig
    /\ sawDone0 = FALSE

SpecFilterDet == InitFilterDet /\ [][NextFilter]_vars

-----------------------------------------------------------------------------
(* The variable by itself: newStyleEnvString, NewHashDebug, DebugHashMatchParam *)

\* the hash strings the variable is made of
HashStrings == {<<"1">>, <<"1", "0">>, <<"0", "1", "1">>}

\* the lists of at most n hash strings
HashLists(n) == UNION {[1..k -> HashStrings] : k \in 0..n}

\* hashes of sites: all of three bits
SomeHashes == 0..7

\* test, line 761: the number of accepted three-letter names that fails it
FailThreshold == 4

\* values of the variable that name a mode, as a user may set them
ModeValues == {<<"y">>, <<"Y">>, <<"n">>, <<"N">>, <<"y", "/", "1">>, <<"n", "-", "1">>}

\* any exclusions, suffix (none as well, as in a variable of exclusions only)
\* and hashes; the sites are the eight three-letter names of fail.go
InitEnv ==
    /\ mode = "env"
    /\ monotone = FALSE
    /\ bisectSyntax = FALSE
    /\ initialSuffix = <<>>
    /\ restartSuffix = <<>>
    /\ batchExclude = FALSE
    /\ universe = {Site(h) : h \in SomeHashes}
    /\ special = universe
    /\ threshold = FailThreshold
    /\ multiple = 1
    /\ multiple0 = multiple
    /\ pc = "encode"
    /\ searchResult = FALSE
    /\ excludes \in HashLists(MaxRules)
    /\ suffix \in HashStrings \cup {<<>>}
    /\ hashes \in HashLists(MaxRules)
    /\ next_singleton_hash_index = 0
    /\ doneSet = {}
    /\ memo = {}
    /\ last = NoTrial
    /\ withoutExcludes = FALSE
    /\ confirmed_suffix = <<>>
    /\ restart_suffix = <<>>
    /\ first_result = NoResult
    /\ temporarily_removed = <<>>
    /\ fi = 0
    /\ sss = <<>>
    /\ printed = ""
    /\ exitCode = -1
    /\ filtered = NotFiltered
    /\ probe = NoProbe
    /\ timeout = 0
    /\ cmd = NoCmd
    /\ trig = NoTrig
    /\ sawDone0 = FALSE

EnvUnchanged ==
    UNCHANGED <<flags, cmd, trig, filtered, multiple, excludes, suffix, hashes,
                next_singleton_hash_index, withoutExcludes, confirmed_suffix,
                restart_suffix, first_result, searchResult, temporarily_removed, fi,
                sss, printed, exitCode, last, memo, doneSet, sawDone0>>

\* trySuffix, line 353: the variable is made
encode ==
    /\ pc = "encode"
    /\ probe' = [probe EXCEPT !.env = newStyleEnvString(excludes, suffix, hashes, ~withoutExcludes)]
    /\ pc' = "parse"
    /\ EnvUnchanged

\* test, lines 749-751: the variable as set by hand, not by the driver
Getenv ==
    /\ pc = "encode"
    /\ excludes = <<>> /\ suffix = <<>> /\ hashes = <<>>
    /\ \E v \in ModeValues : probe' = [probe EXCEPT !.env = v]
    /\ pc' = "parse"
    /\ EnvUnchanged

\* the subject program reads the variable
parse ==
    /\ pc = "parse"
    /\ probe' = [probe EXCEPT !.hd = NewHashDebug(probe.env)]
    /\ pc' = "extend"
    /\ EnvUnchanged

\* the same variable with one more inclusion rule r, read
extend ==
    /\ pc = "extend"
    /\ \E r \in HashStrings :
         probe' = [probe EXCEPT !.hd1 = NewHashDebug(probe.env \o <<sep>> \o r)]
    /\ pc' = "decide"
    /\ EnvUnchanged

\* the decisions for a hash x under the two, the name logged with the first,
\* and whether test fails with the variable
decide ==
    /\ pc = "decide"
    /\ \E x \in SomeHashes :
         probe' = [probe EXCEPT !.x = x,
                                !.before = DebugHashMatchParam(probe.hd, x).ret,
                                !.log = DebugHashMatchParam(probe.hd, x).log,
                                !.after = DebugHashMatchParam(probe.hd1, x).ret,
                                !.fails = test(probe.env).err]
    /\ pc' = "decided"
    /\ EnvUnchanged

NextEnv ==
    \/ encode
    \/ Getenv
    \/ parse
    \/ extend
    \/ decide

SpecEnv == InitEnv /\ [][NextEnv]_vars

-----------------------------------------------------------------------------
(* One trial: tryCmd with its watchdog, and trySuffix's classification *)

\* seconds of -t considered, of either sign
MaxTimeout == 2

\* the polls of the watchdog between interrupt and kill (100 in tryCmd, line 215)
MaxPolls == 2

\* tryCmd, lines 233-238, as if a timeout never changed err
TimeoutErrKept(timedOut, timeoutMeansPass, err) == err

\* tryCmd, lines 233-238: err after a timeout; status "fail" leaves it as Wait
\* returned it
TimeoutErr(timedOut, timeoutMeansPass, err) ==
    IF timedOut /\ timeoutMeansPass THEN FALSE ELSE err

InitRun ==
    /\ mode = "run"
    /\ monotone = FALSE
    /\ bisectSyntax = FALSE
    /\ initialSuffix = <<>>
    /\ restartSuffix = <<>>
    /\ batchExclude = FALSE
    /\ universe = {}
    /\ special = {}
    /\ threshold = 0
    /\ multiple = 1
    /\ multiple0 = multiple
    /\ pc = "tryCmd"
    /\ searchResult = FALSE
    /\ excludes = <<>>
    /\ suffix \in {<<"0">>, <<"1">>}
    /\ hashes = <<>>
    /\ next_singleton_hash_index = 0
    /\ doneSet = {}
    /\ memo = {}
    /\ last = NoTrial
    /\ withoutExcludes = FALSE
    /\ confirmed_suffix = <<>>
    /\ restart_suffix = <<>>
    /\ first_result = NoResult
    /\ temporarily_removed = <<>>
    /\ fi = 0
    /\ sss = <<>>
    /\ printed = ""
    /\ exitCode = -1
    /\ filtered = NotFiltered
    /\ probe = NoProbe
    /\ sawDone0 = FALSE
    /\ timeout \in (0 - MaxTimeout)..MaxTimeout
    /\ cmd = NoCmd
    /\ trig = NoTrig

RunUnchanged ==
    UNCHANGED <<flags, trig, filtered, probe, multiple, excludes, suffix, hashes,
                next_singleton_hash_index, withoutExcludes, confirmed_suffix,
                restart_suffix, first_result, searchResult, temporarily_removed, fi,
                sss, printed, exitCode, last, memo, doneSet, sawDone0>>

\* tryCmd, lines 192-209: CombinedOutput or Start. The command may fail to
\* start: tryCmd then returns the error with no output. Otherwise the child is
\* live and, unless timeout is 0, the watchdog is armed for t seconds.
tryCmd_start ==
    /\ pc = "tryCmd"
    /\ \E started \in BOOLEAN :
         IF started
         THEN /\ cmd' = [cmd EXCEPT !.child = "live",
                                    !.timeoutMeansPass = timeout < 0,
                                    !.t = IF timeout < 0 THEN 0 - timeout ELSE timeout,
                                    !.timer = IF timeout = 0 THEN "none" ELSE "armed"]
              /\ pc' = "wait"
         ELSE /\ cmd' = [cmd EXCEPT !.err = TRUE, !.startErr = TRUE]
              /\ pc' = "classify"
    /\ RunUnchanged

\* a second passes while the driver waits for the child
tick ==
    /\ pc = "wait"
    /\ cmd.elapsed < MaxTimeout
    /\ cmd' = [cmd EXCEPT !.elapsed = cmd.elapsed + 1]
    /\ UNCHANGED pc
    /\ RunUnchanged

\* the child ends, by itself or on a signal: status is whether Wait will return
\* an error (any exit status but 0, or death by a signal), lines the distinct
\* triggers in its output. A child may handle the interrupt and exit with any
\* status; it cannot survive the kill.
child_exit ==
    /\ cmd.child = "live"
    /\ \E status \in BOOLEAN, lines \in Counts :
         /\ cmd.sigkill => status
         /\ cmd' = [cmd EXCEPT !.child = "exited", !.status = status, !.lines = lines]
    /\ UNCHANGED pc
    /\ RunUnchanged

\* tryCmd, as if the watchdog could kill before its polls were over
EscalatesAtOnce(polls) == TRUE

\* tryCmd, lines 215-223: the loop of polls is over
Escalates(polls) == polls = MaxPolls

\* tryCmd, lines 211-214: the watchdog fires t seconds after it was armed,
\* unless stopped before; sent are the calls of p.Signal so far
timer_fire ==
    /\ cmd.timer = "armed"
    /\ cmd.elapsed >= cmd.t
    /\ cmd' = [cmd EXCEPT !.timer = "fired",
                          !.timedOut = TRUE,
                          !.sigint = cmd.sigint \/ cmd.child = "live",
                          !.liveAtExpiry = cmd.child = "live",
                          !.sent = Append(cmd.sent, "interrupt")]
    /\ UNCHANGED pc
    /\ RunUnchanged

\* tryCmd, lines 215-222: one poll of doneChan
timer_poll ==
    /\ cmd.timer = "fired"
    /\ cmd.polls < MaxPolls
    /\ ~Escalates(cmd.polls)
    /\ cmd' = IF cmd.done
              THEN [cmd EXCEPT !.timer = "returned", !.done = FALSE]
              ELSE [cmd EXCEPT !.polls = cmd.polls + 1]
    /\ UNCHANGED pc
    /\ RunUnchanged

\* tryCmd, line 223: the kill after the last poll
timer_kill ==
    /\ cmd.timer = "fired"
    /\ Escalates(cmd.polls)
    /\ cmd' = [cmd EXCEPT !.timer = "returned",
                          !.sigkill = cmd.sigkill \/ cmd.child = "live",
                          !.sent = Append(cmd.sent, "kill")]
    /\ UNCHANGED pc
    /\ RunUnchanged

\* tryCmd, lines 193 and 225-226: Wait returns once the child has ended
tryCmd_wait ==
    /\ pc = "wait"
    /\ cmd.child = "exited"
    /\ cmd' = [cmd EXCEPT !.err = cmd.status, !.done = timeout # 0]
    /\ pc' = IF timeout = 0 THEN "classify" ELSE "stop"
    /\ RunUnchanged

\* tryCmd, lines 231-240: the watchdog is stopped if it has not fired, and a
\* timeout settles err
tryCmd_stop ==
    /\ pc = "stop"
    /\ cmd' = [cmd EXCEPT !.timer = IF cmd.timer = "armed" THEN "stopped" ELSE cmd.timer,
                          !.err = TimeoutErr(cmd.timedOut, cmd.timeoutMeansPass, cmd.err)]
    /\ pc' = "classify"
    /\ RunUnchanged

\* trySuffix, lines 362-389: the outcome of the trial, from tryCmd's error and
\* the triggers in its output (none when the command did not start)
trySuffix_classify ==
    /\ pc = "classify"
    /\ cmd' = [cmd EXCEPT !.result = Classify(cmd.err, IF cmd.startErr THEN 0 ELSE cmd.lines)]
    /\ pc' = "done"
    /\ RunUnchanged

\* the driver is sent an interrupt during a trial. Nothing in the driver
\* handles signals, so it ends there; the child is interrupted only if the
\* sender reached it as well (tty: the terminal signals the whole group).
user_interrupt ==
    /\ pc \in {"wait", "stop", "classify"}
    /\ \E tty \in BOOLEAN :
         cmd' = [cmd EXCEPT !.liveAtInterrupt = cmd.child = "live",
                            !.sigint = cmd.sigint \/ (tty /\ cmd.child = "live"),
                            !.timer = "none"]
    /\ pc' = "interrupted"
    /\ RunUnchanged

NextRun ==
    \/ tryCmd_start
    \/ tick
    \/ child_exit
    \/ timer_fire
    \/ timer_poll
    \/ timer_kill
    \/ tryCmd_wait
    \/ tryCmd_stop
    \/ trySuffix_classify
    \/ user_interrupt

SpecRun == InitRun /\ [][NextRun]_vars

-----------------------------------------------------------------------------
(* matchTrigger by itself, line by line *)

\* lines of output in one run
MaxLines == 2

HexDigits == <<"0", "1", "2", "3", "4", "5", "6", "7", "8", "9", "a", "b", "c", "d", "e", "f">>

RECURSIVE ParseHexFrom(_, _, _)
\* strconv.ParseUint(s, 16, 64) from digit k on, acc the value so far
ParseHexFrom(s, k, acc) ==
    IF k > Len(s) THEN acc
    ELSE ParseHexFrom(s, k + 1,
                      16 * acc + (CHOOSE d \in 0..15 : HexDigits[d + 1] = s[k]))

ParseHex(s) == ParseHexFrom(s, 1, 0)

\* the hashes the subject program prints, "0x%x" (fail.go, lines 689 and 696)
HexTokens ==
    {<<"0", "x", "0">>, <<"0", "x", "5">>, <<"0", "x", "1", "f">>, <<"0", "x", "a", "6">>}

\* the lines of logDebugHashMatch, fail.go lines 723-729:
\* "ev triggered <site> <hash>" and "<site> [bisect-match <hash>]"
OutputLines == [kind : {"triggered", "bisect"}, site : {"f", "g"}, h : HexTokens]

\* matchTrigger, line 293, as if the mask had one bit more
TriggerMatchesWide(hv, sfx) ==
    BitAnd(hv, Pow2(Len(sfx) + 1) - 1) = BitAnd(ParseBinary(sfx), Pow2(Len(sfx) + 1) - 1)

\* matchTrigger, lines 256-258 and 293: hv&mask == suffixVal
TriggerMatches(hv, sfx) ==
    BitAnd(hv, Pow2(Len(sfx)) - 1) = BitAnd(ParseBinary(sfx), Pow2(Len(sfx)) - 1)

\* m[h] = m[h] + 1; m is the sequence of its keys and counts
Counted(m, h) ==
    IF \E k \in 1..Len(m) : m[k].key = h
    THEN [k \in 1..Len(m) |-> IF m[k].key = h THEN [m[k] EXCEPT !.n = m[k].n + 1] ELSE m[k]]
    ELSE Append(m, [key |-> h, n |-> 1])

InitTrigger ==
    /\ mode = "trigger"
    /\ monotone = FALSE
    /\ bisectSyntax \in BOOLEAN
    /\ initialSuffix = <<>>
    /\ restartSuffix = <<>>
    /\ batchExclude = FALSE
    /\ universe = {}
    /\ special = {}
    /\ threshold = 0
    /\ multiple = 1
    /\ multiple0 = multiple
    /\ pc = "matchTrigger"
    /\ searchResult = FALSE
    /\ excludes = <<>>
    /\ suffix \in BinStrings(HashBits + 1)
    /\ hashes = <<>>
    /\ next_singleton_hash_index = 0
    /\ doneSet = {}
    /\ memo = {}
    /\ last = NoTrial
    /\ withoutExcludes = FALSE
    /\ confirmed_suffix = <<>>
    /\ restart_suffix = <<>>
    /\ first_result = NoResult
    /\ temporarily_removed = <<>>
    /\ fi = 0
    /\ sss = <<>>
    /\ printed = ""
    /\ exitCode = -1
    /\ filtered = NotFiltered
    /\ probe = NoProbe
    /\ sawDone0 = FALSE
    /\ timeout = 0
    /\ cmd = NoCmd
    /\ \E out \in UNION {[1..n -> OutputLines] : n \in 0..MaxLines} :
         trig = [NoTrig EXCEPT !.output = out]

TriggerUnchanged ==
    UNCHANGED <<flags, cmd, filtered, probe, multiple, excludes, suffix, hashes,
                next_singleton_hash_index, withoutExcludes, confirmed_suffix,
                restart_suffix, first_result, searchResult, temporarily_removed, fi,
                sss, printed, exitCode, last, memo, doneSet, sawDone0>>

\* matchTrigger, lines 268-314: one line of the output. A line without the
\* trigger prefix is passed over; with bisectSyntax a line whose hash does not
\* agree with suffix is passed over by the continue of line 294.
matchTrigger_line ==
    /\ pc = "matchTrigger"
    /\ trig.i <= Len(trig.output)
    /\ LET l == trig.output[trig.i]
           prefixed == l.kind = (IF bisectSyntax THEN "bisect" ELSE "triggered")
           hv == ParseHex(SubSeq(l.h, 3, Len(l.h)))
       IN trig' = IF prefixed /\ (bisectSyntax => TriggerMatches(hv, suffix))
                  THEN [trig EXCEPT !.i = trig.i + 1,
                                    !.m = Counted(trig.m, l.h),
                                    !.lastTrigger = l.site]
                  ELSE [trig EXCEPT !.i = trig.i + 1]
    /\ UNCHANGED pc
    /\ TriggerUnchanged

\* matchTrigger, line 315, and trySuffix, lines 362-364: count is len(m)
matchTrigger_return ==
    /\ pc = "matchTrigger"
    /\ trig.i > Len(trig.output)
    /\ pc' = "matched"
    /\ UNCHANGED trig
    /\ TriggerUnchanged

NextTrigger ==
    \/ matchTrigger_line
    \/ matchTrigger_return

SpecTrigger == InitTrigger /\ [][NextTrigger]_vars

-----------------------------------------------------------------------------
(* Properties *)

Range(s) == {s[k] : k \in 1..Len(s)}

\* C1: trySuffix classifies a trial from its exit status and its number n of
\* distinct triggers: failing exit and n >= 2 is FAILED, failing and n = 1 is
\* DONE, failing and n = 0 is DONE0, passing and n >= 1 is PASSED, passing
\* and n = 0 is PASSED0.
C1_Classification ==
    last.result # NoResult =>
        /\ (last.err /\ last.count >= 2) => last.result = FAILED
        /\ (last.err /\ last.count = 1) => last.result = DONE
        /\ (last.err /\ last.count = 0) => last.result = DONE0
        /\ (~last.err /\ last.count >= 1) => last.result = PASSED
        /\ (~last.err /\ last.count = 0) => last.result = PASSED0

C1_Witness == last.err /\ last.count = 0 /\ last.result = DONE0

\* C2: when search returns success, next_singleton_hash_index = len(hashes),
\* and suffix and every entry of hashes was the suffix of a trial that failed
\* with exactly one distinct trigger.
C2_SuccessSingletons ==
    (pc = "search_ret" /\ searchResult) =>
        /\ next_singleton_hash_index = Len(hashes)
        /\ suffix \in doneSet
        /\ \A k \in 1..Len(hashes) : hashes[k] \in doneSet

C2_Witness == pc = "search_ret" /\ searchResult /\ Len(hashes) = 2

\* C3: started below hashLimit, no suffix tried and no entry of hashes is longer
\* than hashLimit; once len(confirmed_suffix) >= hashLimit search returns
\* failure at once, and it never returns success with such a confirmed_suffix.
C3_LengthBound ==
    /\ [](/\ Len(suffix) <= hashLimit
          /\ \A k \in 1..Len(hashes) : Len(hashes[k]) <= hashLimit
          /\ (pc = "search_ret" /\ searchResult) => Len(confirmed_suffix) < hashLimit)
    /\ [][(pc = "search_A" /\ Len(confirmed_suffix) >= hashLimit)
            => (pc' = "search_ret" /\ ~searchResult' /\ last' = last)]_vars

\* every trial so far was FAILED and the search gave up at hashLimit bits
C3_Witness ==
    /\ pc = "search_ret" /\ ~searchResult
    /\ Len(confirmed_suffix) = hashLimit
    /\ confirmed_suffix = suffix
    /\ last.result = FAILED
    /\ hashes = <<>>
\* the binary string sfx is a suffix of the binary form of the hash h
SuffixOf(sfx, h) == ParseBinary(sfx) = h % Pow2(Len(sfx))

\* the sites of the universe whose hash ends in sfx
SitesOf(sfx) == {u \in universe : SuffixOf(sfx, u.hash)}

\* no two sites of the universe agree in the low hashLimit bits of their hashes
Distinguishable ==
    \A u, v \in universe : u # v => u.hash % Pow2(hashLimit) # v.hash % Pow2(hashLimit)

\* the test fails iff the one site of special triggers
SinglePoint == Distinguishable /\ Cardinality(special) = 1 /\ threshold = 1

\* C4: with distinguishable sites and a test that fails iff one fixed site s
\* triggers, the search from the empty suffix terminates, with success, hashes
\* empty, and suffix a binary suffix of hash(s) that no other site shares.
C4_SinglePoint ==
    /\ SinglePoint => <>(pc = "exit")
    /\ [](SinglePoint =>
            /\ pc = "search_ret" => (searchResult /\ hashes = <<>> /\ SitesOf(suffix) = special)
            /\ pc = "exit" => (/\ searchResult /\ printed = ""
                               /\ hashes = <<>> /\ SitesOf(suffix) = special
                               /\ sss = <<[suffix |-> suffix, hashes |-> <<>>]>>))

\* a site among four is singled out by a suffix of two bits
C4_Witness ==
    /\ SinglePoint /\ pc = "exit"
    /\ Cardinality(universe) = MaxSites
    /\ Len(suffix) = 2
    /\ SitesOf(suffix) = special

C6_FilterIdempotent ==
    (pc = "main_post_filter" /\ filtered # NotFiltered)
        => {suffix} \cup Range(hashes) = filtered

\* C6, amended: the same for a deterministic test that is monotone (failing
\* under a set of rules it fails under every larger set).
C6_FilterIdempotentMonotone ==
    (monotone /\ pc = "main_post_filter" /\ filtered # NotFiltered)
        => {suffix} \cup Range(hashes) = filtered

\* the first call dropped an entry and the second call ran its trials
C6_Witness ==
    /\ monotone /\ pc = "main_post_filter" /\ filtered # NotFiltered
    /\ Cardinality(filtered) = 3
    /\ Cardinality(memo) > 5

\* the value of the binary numeral s, digit by digit
BinaryValue(s) ==
    LET sum[k \in 0..Len(s)] ==
            IF k = 0 THEN 0
            ELSE sum[k - 1] + (IF s[k] = "1" THEN 2 ^ (Len(s) - k) ELSE 0)
    IN sum[Len(s)]

\* the rule m is the one the hash string s stands for
RuleOf(m, s) == m.hash = BinaryValue(s) /\ m.mask = 2 ^ Len(s) - 1 /\ ~m.bad

\* C7: NewHashDebug of what newStyleEnvString makes of exclusions, a non-empty
\* suffix and hashes has the exclusions as its exclusion rules, in order, and
\* suffix followed by hashes as its inclusion rules, in order; the rule of a
\* string of L digits has mask (1<<L)-1 and the binary value of the string as hash.
C7_EnvRoundTrip ==
    (pc \in {"extend", "decide", "decided"} /\ suffix # <<>>) =>
        LET hd == probe.hd IN
        /\ ~hd.nil /\ ~hd.yes /\ ~hd.no /\ ~hd.bad
        /\ Len(hd.excludes) = Len(excludes)
        /\ \A k \in 1..Len(excludes) : RuleOf(hd.excludes[k], excludes[k])
        /\ Len(hd.matches) = 1 + Len(hashes)
        /\ RuleOf(hd.matches[1], suffix)
        /\ \A k \in 1..Len(hashes) : RuleOf(hd.matches[k + 1], hashes[k])

C7_Witness ==
    /\ pc = "extend"
    /\ suffix = <<"0", "1", "1">>
    /\ Len(excludes) = MaxRules /\ excludes[1] # excludes[2]
    /\ Len(hashes) = MaxRules /\ hashes[1] # hashes[2]
    /\ Len(probe.hd.matches) = 1 + MaxRules

\* C8, as stated: a hash x the probe decides true for under rules R is decided
\* true for under R with one more inclusion rule.
C8_RuleMonotone ==
    (pc = "decided" /\ probe.before) => probe.after

\* C8, amended: the same for rules R with at least one inclusion rule.
C8_RuleMonotoneIncluding ==
    (pc = "decided" /\ Len(probe.hd.matches) > 0 /\ probe.before) => probe.after

\* x passes the exclusions and matches a rule of R but not the added one
C8_Witness ==
    /\ pc = "decided" /\ probe.before /\ probe.after
    /\ Len(probe.hd.excludes) > 0
    /\ Len(probe.hd.matches) > 0
    /\ Len(probe.hd1.matches) = Len(probe.hd.matches) + 1
    /\ ~RuleMatches(probe.hd1.matches[Len(probe.hd1.matches)], probe.x)

\* C9: the driver exits with code 0 when the search converges and with a
\* nonzero code when search returned failure (flaky, or hashLimit reached).
C9_ExitCodes ==
    pc = "exit" => (exitCode = 0 <=> searchResult)

\* C10, as stated: a DONE0 trial in a search makes main print "FLAKY TEST OR BAD
\* SEARCH" and end, once the search has returned.
C10_Done0AlwaysFlaky ==
    [][(pc = "search_ret" /\ sawDone0) => (printed' = "FLAKY" /\ pc' = "exit")]_vars

\* C10, amended: a trial that fails with no trigger is passed over in Trial A
\* (Trial B follows); in Trial B it makes search return false only when
\* next_singleton_hash_index = len(hashes), otherwise the last entry of hashes
\* becomes confirmed_suffix and the search goes on. When search returns false
\* main prints "FLAKY TEST OR BAD SEARCH" and ends with no result recorded.
C10_Done0 ==
    /\ [][(pc = "search_A" /\ pc' # "search_A" /\ last'.err /\ last'.count = 0
              /\ Len(confirmed_suffix) < hashLimit)
            => (pc' = "search_B" /\ hashes' = hashes /\ confirmed_suffix' = confirmed_suffix)]_vars
    /\ [][(pc = "search_B" /\ last'.err /\ last'.count = 0)
            => IF next_singleton_hash_index = Len(hashes)
               THEN pc' = "search_ret" /\ ~searchResult'
               ELSE /\ pc' = "search_A"
                    /\ confirmed_suffix' = hashes[Len(hashes)]
                    /\ hashes' = SubSeq(hashes, 1, Len(hashes) - 1)]_vars
    /\ [][(pc = "search_ret" /\ ~searchResult)
            => (printed' = "FLAKY" /\ pc' = "exit" /\ sss' = sss)]_vars

\* Trial B failed with no trigger and nothing was left to fall back on
C10_Witness ==
    /\ pc = "exit"
    /\ printed = "FLAKY"
    /\ last.err /\ last.count = 0
    /\ sss = <<>>


\* rule m accepts x: x and m.hash agree in the bits of m.mask, 2^L - 1
Agrees(m, x) == x % (m.mask + 1) = m.hash % (m.mask + 1)

SomeAgrees(rules, x) == \E k \in 1..Len(rules) : Agrees(rules[k], x)

\* C11: with a rule set (a non-empty value of the variable) the probe decides
\* false for a hash if the mode is "no" or an exclusion rule matches it, and
\* otherwise true exactly if the mode is "yes", or there is no inclusion rule,
\* or an inclusion rule matches it; an exclusion match overrides every inclusion.
C11_ProbeDecision ==
    (pc = "decided" /\ probe.env # <<>>) =>
        LET d == probe.hd IN
        /\ ~d.nil
        /\ probe.before =
             IF d.no \/ SomeAgrees(d.excludes, probe.x) THEN FALSE
             ELSE d.yes \/ Len(d.matches) = 0 \/ SomeAgrees(d.matches, probe.x)

\* a hash that an inclusion rule and an exclusion rule both match is refused
C11_Witness ==
    /\ pc = "decided"
    /\ SomeAgrees(probe.hd.excludes, probe.x)
    /\ SomeAgrees(probe.hd.matches, probe.x)
    /\ ~probe.before

\* C12: with a rule set, a true decision logs a trigger under the name of the
\* first inclusion rule, in list order, that matches (the variable's own name
\* where the set has no inclusion rule); the first inclusion rule is named ev,
\* the (i+1)-th ev followed by i-1; a false decision logs nothing.
C12_TriggerEmission ==
    (pc = "decided" /\ probe.env # <<>>) =>
        LET d == probe.hd IN
        IF ~probe.before THEN probe.log = NoLog
        ELSE IF d.yes \/ Len(d.matches) = 0 THEN probe.log = RuleName("ev", Bare)
        ELSE \E k \in 1..Len(d.matches) :
                /\ Agrees(d.matches[k], probe.x)
                /\ \A j \in 1..(k - 1) : ~Agrees(d.matches[j], probe.x)
                /\ probe.log = RuleName("ev", IF k = 1 THEN Bare ELSE k - 2)

\* the second and the third of three inclusion rules match: ev0 is logged
C12_Witness ==
    /\ pc = "decided" /\ probe.before
    /\ Len(probe.hd.matches) = 3
    /\ ~Agrees(probe.hd.matches[1], probe.x)
    /\ Agrees(probe.hd.matches[2], probe.x)
    /\ Agrees(probe.hd.matches[3], probe.x)
    /\ probe.log = RuleName("ev", 0)

\* C13: with the empty value of the variable no rule set is built, the probe
\* decides true for every site, and test, which fails when FailThreshold
\* three-letter names are accepted, fails.
C13_EmptyValue ==
    (pc = "decided" /\ probe.env = <<>>) =>
        /\ probe.hd.nil
        /\ probe.before
        /\ \A site \in universe : DebugHashMatchParam(probe.hd, site.hash).ret
        /\ probe.fails

C13_Witness ==
    /\ pc = "decided" /\ probe.env = <<>>
    /\ probe.x = 7 /\ probe.before /\ probe.fails


\* C14: with a positive timeout, a trial whose child is still running when the
\* timeout expires is classified FAILED, DONE or DONE0, never PASSED or PASSED0,
\* whatever exit status the child returns after being signalled.
C14_TimeoutFails ==
    (pc = "done" /\ timeout > 0 /\ cmd.liveAtExpiry) =>
        cmd.result \in {FAILED, DONE, DONE0}

\* C15: with a negative timeout -T the watchdog runs for T seconds and a trial
\* whose child is still running when it expires is classified PASSED0 if its
\* output has no trigger and PASSED otherwise, whatever exit status the child
\* returns.
C15_TimeoutPasses ==
    (pc = "done" /\ timeout < 0 /\ cmd.liveAtExpiry) =>
        /\ cmd.t = 0 - timeout
        /\ cmd.elapsed >= 0 - timeout
        /\ cmd.result = IF cmd.lines = 0 THEN PASSED0 ELSE PASSED

\* the child was killed after the polls, Wait returned an error, and the trial
\* counts as PASSED
C15_Witness ==
    /\ pc = "done" /\ timeout < 0 /\ cmd.liveAtExpiry
    /\ cmd.sigkill /\ cmd.status /\ cmd.lines = 1
    /\ cmd.result = PASSED

\* C16: an interrupt the driver receives while a trial's child is live has
\* been delivered to that child when the driver has ended.
C16_InterruptPropagates ==
    (pc = "interrupted" /\ cmd.liveAtInterrupt) => cmd.sigint

\* C17: a test command that cannot be started ends the run: it never becomes
\* the outcome of a trial.
C17_RunnerErrorAborts ==
    cmd.startErr => cmd.result = NoResult


\* the check trial of main, line 578, has just been run
CheckTrialRun == suffix' = initialSuffix /\ hashes' = <<>> /\ ~withoutExcludes'

\* C18: with multiple > 0 at the start the driver makes at most multiple
\* successful searches and ends right after the multiple-th, with no check
\* trial; with multiple = 0 it ends only when a search fails or the check trial
\* passes, and otherwise starts the next search after each check trial.
C18_DriverLoop ==
    /\ [](/\ multiple0 > 0 => /\ Len(sss) <= multiple0
                              /\ Len(sss) = multiple0 => pc = "exit"
          /\ (multiple0 = 0 /\ pc = "exit") => printed \in {"FLAKY", "NO MORE"})
    /\ [][pc = "main_post_filter" =>
            IF multiple0 > 0 /\ Len(sss') = multiple0
            THEN pc' = "exit" /\ printed' = "" /\ last' = last /\ ~CheckTrialRun
            ELSE /\ CheckTrialRun
                 /\ IF last'.result \in {PASSED, PASSED0}
                    THEN pc' = "exit" /\ printed' = "NO MORE"
                    ELSE pc' = "main_loop" /\ printed' = ""]_vars

\* the driver has ended after as many successful searches as -n asked for
C18_Witness ==
    /\ multiple0 = MaxMultiple
    /\ pc = "exit" /\ printed = ""
    /\ Len(sss) = MaxMultiple


\* the test still fails with suffix and hashes less its k-th entry
RedundantEntry(k) ==
    \A run \in TrialRuns(excludes, suffix,
                         SubSeq(hashes, 1, k - 1) \o SubSeq(hashes, k + 1, Len(hashes)),
                         FALSE) : run.err

\* C19: with a deterministic test, filter leaves no entry of hashes without
\* which the trial still fails, whether search returned with one entry or with
\* more, and its confirming trial of the trimmed set is DONE.
C19_FilterRemovesRedundant ==
    (pc = "main_post_filter" /\ filtered = NotFiltered) =>
        /\ \A k \in 1..Len(hashes) : ~RedundantEntry(k)
        /\ last.result = DONE


\* the value of one hexadecimal digit
HexDigitValue(c) ==
    CASE c = "0" -> 0 [] c = "1" -> 1 [] c = "2" -> 2 [] c = "3" -> 3
      [] c = "4" -> 4 [] c = "5" -> 5 [] c = "6" -> 6 [] c = "7" -> 7
      [] c = "8" -> 8 [] c = "9" -> 9 [] c = "a" -> 10 [] c = "b" -> 11
      [] c = "c" -> 12 [] c = "d" -> 13 [] c = "e" -> 14 [] c = "f" -> 15

\* the value of the hexadecimal numeral s, digit by digit
HexValue(s) ==
    LET sum[k \in 0..Len(s)] ==
            IF k = 0 THEN 0
            ELSE sum[k - 1] + HexDigitValue(s[k]) * 16 ^ (Len(s) - k)
    IN sum[Len(s)]

\* the number of times key h is counted in m
CountOf(m, h) ==
    IF \E k \in 1..Len(m) : m[k].key = h
    THEN (CHOOSE e \in Range(m) : e.key = h).n
    ELSE 0

\* C20: with bisectSyntax, a line "[bisect-match 0xH]" is counted for the trial
\* of suffix s, and its site becomes lastTrigger, exactly if H & ((1<<len(s))-1)
\* is the binary value of s; otherwise the line leaves m and lastTrigger as
\* they were. The empty suffix accepts every such line.
C20_BisectTrigger ==
    [][(pc = "matchTrigger" /\ bisectSyntax /\ trig.i <= Len(trig.output)
          /\ trig.output[trig.i].kind = "bisect") =>
         LET l == trig.output[trig.i]
             H == HexValue(SubSeq(l.h, 3, Len(l.h)))
         IN IF H % (2 ^ Len(suffix)) = BinaryValue(suffix)
            THEN /\ CountOf(trig'.m, l.h) = CountOf(trig.m, l.h) + 1
                 /\ trig'.lastTrigger = l.site
            ELSE /\ trig'.m = trig.m
                 /\ trig'.lastTrigger = trig.lastTrigger]_vars

\* of two lines the first agrees with the suffix 101 and the second does not
C20_Witness ==
    /\ pc = "matched" /\ bisectSyntax
    /\ suffix = <<"1", "0", "1">>
    /\ trig.output = <<[kind |-> "bisect", site |-> "f", h |-> <<"0", "x", "5">>],
                       [kind |-> "bisect", site |-> "g", h |-> <<"0", "x", "1", "f">>]>>
    /\ Len(trig.m) = 1
    /\ trig.lastTrigger = "f"


\* the lines of the output that matchTrigger accepts for the trial of suffix
AcceptedLines ==
    {l \in Range(trig.output) :
        IF bisectSyntax
        THEN /\ l.kind = "bisect"
             /\ HexValue(SubSeq(l.h, 3, Len(l.h))) % (2 ^ Len(suffix)) = BinaryValue(suffix)
        ELSE l.kind = "triggered"}

\* C21: the distinct-trigger count of a trial is the number of distinct pairs
\* of hash token and site among the accepted trigger lines: repetitions of a
\* trigger count once, triggers that differ in site or in hash count as two.
C21_DistinctTriggers ==
    pc = "matched" =>
        Len(trig.m) = Cardinality({<<l.h, l.site>> : l \in AcceptedLines})


\* search is about to run a trial: Trial A of an iteration, or Trial B
AtSearchTrial ==
    \/ pc = "search_A" /\ Len(confirmed_suffix) < hashLimit
    \/ pc = "search_B"

\* C22: when Trial A or Trial B is FAILED, the next iteration of search runs
\* with confirmed_suffix equal to the suffix just tried, one digit longer than
\* before, and with hashes and next_singleton_hash_index unchanged.
C22_FailedNarrows ==
    [][(AtSearchTrial /\ last'.result = FAILED) =>
         /\ pc' = "search_A"
         /\ confirmed_suffix' = suffix'
         /\ \E bit \in Bit : suffix' = <<bit>> \o confirmed_suffix
         /\ hashes' = hashes
         /\ next_singleton_hash_index' = next_singleton_hash_index]_vars

\* a FAILED trial after the multi-point branch has put an entry in hashes
C22_Witness ==
    /\ pc = "search_A" /\ last.result = FAILED
    /\ confirmed_suffix = suffix
    /\ Len(confirmed_suffix) = InitialLen + 2
    /\ Len(hashes) = 1 /\ next_singleton_hash_index = 0


\* C23: when Trial A or Trial B is DONE and next_singleton_hash_index is
\* len(hashes), search returns true at once, with ss.suffix the suffix of that
\* trial and hashes unchanged; search returns true in no other situation.
C23_SuccessExactlyWhenReduced ==
    [][/\ (AtSearchTrial /\ last'.result = DONE
             /\ next_singleton_hash_index = Len(hashes)) =>
            /\ pc' = "search_ret" /\ searchResult'
            /\ \E bit \in Bit : suffix' = <<bit>> \o confirmed_suffix
            /\ hashes' = hashes
            /\ next_singleton_hash_index' = next_singleton_hash_index
       /\ (pc # "search_ret" /\ pc' = "search_ret" /\ searchResult') =>
            /\ AtSearchTrial
            /\ last'.result = DONE /\ last'.err /\ last'.count = 1
            /\ next_singleton_hash_index = Len(hashes)]_vars

\* search has returned true from Trial B with two proven entries in hashes
C23_Witness ==
    /\ pc = "search_ret" /\ searchResult
    /\ first_result \in {PASSED, PASSED0, DONE0}
    /\ last.result = DONE
    /\ Len(hashes) = 2 /\ next_singleton_hash_index = 2


\* C24, as stated: when Trial A or Trial B is DONE and next_singleton_hash_index
\* is less than len(hashes), the suffix tried is stored at position
\* next_singleton_hash_index, the previous occupant of that position becomes
\* confirmed_suffix, the index advances by one and len(hashes) is unchanged.
C24_DoneSwap ==
    [][(AtSearchTrial /\ last'.result = DONE
          /\ next_singleton_hash_index < Len(hashes)) =>
         /\ hashes' = [hashes EXCEPT ![next_singleton_hash_index + 1] = suffix']
         /\ confirmed_suffix' = hashes[next_singleton_hash_index + 1]
         /\ next_singleton_hash_index' = next_singleton_hash_index + 1
         /\ Len(hashes') = Len(hashes)]_vars

\* C24, amended: the same after Trial A; after Trial B confirmed_suffix becomes
\* the entry at some position j from next_singleton_hash_index on, chosen at
\* random, and the previous occupant of position next_singleton_hash_index
\* moves to position j.
C24_DoneSwapRandom ==
    [][(AtSearchTrial /\ last'.result = DONE
          /\ next_singleton_hash_index < Len(hashes)) =>
         /\ \E j \in (next_singleton_hash_index + 1)..Len(hashes) :
              /\ pc = "search_A" => j = next_singleton_hash_index + 1
              /\ confirmed_suffix' = hashes[j]
              /\ \A k \in 1..Len(hashes) :
                   hashes'[k] = IF k = next_singleton_hash_index + 1 THEN suffix'
                                ELSE IF k = j THEN hashes[next_singleton_hash_index + 1]
                                ELSE hashes[k]
         /\ \E bit \in Bit : suffix' = <<bit>> \o confirmed_suffix
         /\ next_singleton_hash_index' = next_singleton_hash_index + 1
         /\ Len(hashes') = Len(hashes)
         /\ pc' = "search_A"]_vars

\* Trial B was DONE with two entries not yet proven: the second of them is
\* taken up and the first has moved to its place
C24_Witness ==
    /\ pc = "search_A" /\ last.result = DONE
    /\ Len(hashes) = 2 /\ next_singleton_hash_index = 1
    /\ hashes[1] = suffix
    /\ Len(hashes[2]) = InitialLen + 1
    /\ Len(confirmed_suffix) = InitialLen + 2


\* Trial B has just passed with triggers after Trial A passed with triggers
BothHalvesPassed ==
    /\ pc = "search_B"
    /\ first_result = PASSED /\ last.result = PASSED /\ last.count > 0
    /\ last'.result = PASSED /\ ~last'.err /\ last'.count > 0

\* C25: exactly when Trial A and Trial B both pass with at least one trigger,
\* search appends one one-bit extension of confirmed_suffix to the end of hashes
\* and continues with the other one as confirmed_suffix; len(hashes) grows by
\* one and next_singleton_hash_index is unchanged.
C25_MultiPoint ==
    [][/\ BothHalvesPassed =>
            /\ \E bit \in Bit :
                 /\ hashes' = Append(hashes, <<bit>> \o confirmed_suffix)
                 /\ confirmed_suffix' =
                        <<IF bit = "0" THEN "1" ELSE "0">> \o confirmed_suffix
            /\ Len(hashes') = Len(hashes) + 1
            /\ next_singleton_hash_index' = next_singleton_hash_index
            /\ pc' = "search_A"
       /\ (AtSearchTrial /\ Len(hashes') > Len(hashes)) => BothHalvesPassed]_vars

\* both halves passed twice in a row: two still-multi entries, none proven
C25_Witness ==
    /\ pc = "search_A" /\ last.result = PASSED
    /\ Len(hashes) = 2 /\ next_singleton_hash_index = 0
    /\ Len(hashes[2]) = InitialLen + 2
    /\ Len(confirmed_suffix) = InitialLen + 2
    /\ hashes[2] # confirmed_suffix
    /\ SubSeq(hashes[2], 2, InitialLen + 2) = SubSeq(confirmed_suffix, 2, InitialLen + 2)


\* Trial B has just been classified PASSED0 or DONE0, or PASSED after a Trial A
\* that was PASSED0 or DONE0
FlakyTrial ==
    /\ pc = "search_B"
    /\ \/ last'.result \in {PASSED0, DONE0}
       \/ last'.result = PASSED /\ first_result \in {PASSED0, DONE0}

\* C26: in the flaky branch search returns failure when every entry of hashes
\* is a proven singleton; otherwise the last entry of hashes is removed and
\* becomes confirmed_suffix and next_singleton_hash_index is unchanged. Trial B
\* is only reached after a Trial A that was PASSED, PASSED0 or DONE0.
C26_FlakyBranch ==
    [][/\ FlakyTrial =>
            IF next_singleton_hash_index = Len(hashes)
            THEN /\ pc' = "search_ret" /\ ~searchResult'
                 /\ hashes' = hashes
                 /\ next_singleton_hash_index' = next_singleton_hash_index
            ELSE /\ pc' = "search_A"
                 /\ confirmed_suffix' = hashes[Len(hashes)]
                 /\ hashes' = SubSeq(hashes, 1, Len(hashes) - 1)
                 /\ next_singleton_hash_index' = next_singleton_hash_index
       /\ pc' = "search_B" => first_result' \in {PASSED, PASSED0, DONE0}]_vars

\* a flaky Trial B took the second still-multi entry back out of hashes
C26_Witness ==
    /\ pc = "search_A" /\ last.result \in {PASSED0, DONE0}
    /\ Len(hashes) = 1 /\ next_singleton_hash_index = 0
    /\ Len(hashes[1]) = InitialLen + 1
    /\ Len(confirmed_suffix) = InitialLen + 2
    /\ Len(suffix) = InitialLen + 3


\* the entries filter still holds: suffix, hashes and the one taken out
Held == {suffix} \cup Range(hashes) \cup {temporarily_removed}

\* the entry taken out for the trial of this iteration of filter's loop
RemovedForTrial ==
    IF fi = -1 THEN suffix
    ELSE IF fi < Len(hashes) THEN hashes[fi + 1] ELSE temporarily_removed

\* hashes as the trial of this iteration of filter's loop sees it
HashesForTrial ==
    IF fi # -1 /\ fi < Len(hashes)
    THEN [hashes EXCEPT ![fi + 1] = temporarily_removed] ELSE hashes

\* C27: when the trial of an iteration of filter's loop is DONE or FAILED, the
\* entry taken out for it is held no longer, the last entry of hashes is taken
\* out of hashes as the next candidate, and from then until filter returns no
\* entry that is not held comes back: the dropped entry is in neither suffix
\* nor hashes when filter returns.
C27_FilterDrops ==
    [][/\ (pc = "filter_loop" /\ fi >= -1 /\ Len(hashes) > 0
             /\ last'.result \in {DONE, FAILED}) =>
            /\ RemovedForTrial \notin Held'
            /\ temporarily_removed' = HashesForTrial[Len(hashes)]
            /\ hashes' = SubSeq(HashesForTrial, 1, Len(hashes) - 1)
            /\ Len(hashes') = Len(hashes) - 1
       /\ pc = "filter_loop" =>
            /\ Held' \subseteq Held \cup {<<>>}
            /\ pc' = "main_post_filter" =>
                 {suffix'} \cup Range(hashes') \subseteq Held]_vars

\* filter has returned having dropped the entry first taken out, and only it
C27_Witness ==
    /\ pc = "main_post_filter" /\ filtered = NotFiltered
    /\ Entry(3) \in doneSet
    /\ {suffix} \cup Range(hashes) = {Entry(0), Entry(1), Entry(2)}
    /\ Len(hashes) = 2


\* the primary suffix of the trial of this iteration of filter's loop
SuffixForTrial == IF fi = -1 THEN temporarily_removed ELSE suffix

\* C28: when the trial of an iteration of filter's loop is DONE0, with one or
\* more entries left in hashes, filter goes on without the entry taken out for
\* the trial and without the primary suffix of the trial, and keeps every other
\* entry (in suffix, in hashes or as the next candidate).
C28_Done0CollapsesTwo ==
    [][(pc = "filter_loop" /\ fi >= -1 /\ Len(hashes) > 0
          /\ last'.result = DONE0) =>
         /\ pc' = "filter_loop"
         /\ SuffixForTrial \notin Held'
         /\ RemovedForTrial \notin Held'
         /\ Held' \ {<<>>} = Range(HashesForTrial)]_vars


\* the number of "-" in the value ev
Dashes(ev) == Cardinality({k \in 1..Len(ev) : ev[k] = "-"})

\* where the k-th exclusion of xs starts in a value that encodes xs
ExclusionAt(xs, k) ==
    LET lens == [j \in 1..Len(xs) |-> Len(xs[j]) + 2]
        F[j \in 0..Len(xs)] == IF j = 0 THEN 0 ELSE F[j - 1] + lens[j]
    IN F[k - 1] + 1

\* the value ev holds every exclusion of xs, in order, as "-", the exclusion
\* and the separator, then sfx, and no other exclusion; NewHashDebug reads
\* these exclusions from it
EncodesExclusions(ev, xs, sfx) ==
    /\ Dashes(ev) = Len(xs)
    /\ \A k \in 1..Len(xs) :
         LET at == ExclusionAt(xs, k) IN
         /\ Len(ev) >= at + Len(xs[k]) + 1
         /\ SubSeq(ev, at, at + Len(xs[k]) + 1) = <<"-">> \o xs[k] \o <<sep>>
    /\ LET at == ExclusionAt(xs, Len(xs) + 1) IN
       /\ Len(ev) >= at + Len(sfx) - 1
       /\ SubSeq(ev, at, at + Len(sfx) - 1) = sfx
    /\ LET hd == NewHashDebug(ev) IN
       /\ Len(hd.excludes) = Len(xs)
       /\ \A k \in 1..Len(xs) : RuleOf(hd.excludes[k], xs[k])

\* the exclusions in force at the check trial: those of the loop so far and
\* what lines 573-576 add
ExcludesAtCheck ==
    Append(excludes, suffix) \o (IF batchExclude THEN hashes ELSE <<>>)

\* C29: the value every trial of search puts in the environment encodes all
\* current exclusions, each as "-", the exclusion and the separator, before the
\* suffix, and so does the check trial of main; the value of every trial of
\* filter, the confirming trial included, encodes no exclusion.
C29_ExclusionsEncoded ==
    [][/\ AtSearchTrial => EncodesExclusions(last'.ev, excludes, suffix')
       /\ (pc = "main_post_filter" /\ CheckTrialRun) =>
            /\ EncodesExclusions(last'.ev, ExcludesAtCheck, initialSuffix)
            /\ pc' = "main_loop" => excludes' = ExcludesAtCheck
       /\ pc = "filter_loop" =>
            /\ Dashes(last'.ev) = 0
            /\ NewHashDebug(last'.ev).excludes = <<>>
            /\ pc' = "main_post_filter" => EncodesExclusions(last'.ev, <<>>, suffix)]_vars

\* a trial of filter's loop has run in a second search, with an exclusion in
\* force
C29_Witness ==
    /\ pc = "filter_loop" /\ Len(excludes) > 0 /\ withoutExcludes
    /\ Dashes(last.ev) = 0 /\ Len(last.ev) > 0
    /\ Len(sss) = 1


\* xs is ys or ys with more entries at its end
Extends(xs, ys) == Len(xs) >= Len(ys) /\ SubSeq(xs, 1, Len(ys)) = ys

\* C30: when main goes on to another search after a successful one, the
\* exclusion list has gained, at its end, the suffix as filter left it and, with
\* batchExclude, every entry of hashes as filter left it, in order; until main
\* leaves the loop the exclusion list only gains entries at its end; and every
\* search starts from a searchState with empty hashes and index 0.
C30_ExcludesGrow ==
    /\ [][/\ (pc = "main_post_filter" /\ pc' = "main_loop") =>
               /\ Len(excludes') = Len(excludes) + 1
                                     + (IF batchExclude THEN Len(hashes) ELSE 0)
               /\ excludes'[Len(excludes) + 1] = suffix
               /\ batchExclude =>
                    \A k \in 1..Len(hashes) : excludes'[Len(excludes) + 1 + k] = hashes[k]
               /\ hashes' = <<>> /\ next_singleton_hash_index' = 0
               /\ ~withoutExcludes'
          /\ pc' # "exit" => Extends(excludes', excludes)
          /\ pc' = "main_loop" => pc = "main_post_filter"]_vars
    /\ [](pc = "main_loop" =>
            /\ hashes = <<>> /\ next_singleton_hash_index = 0 /\ ~withoutExcludes
            /\ Len(excludes) >= Len(sss)
            /\ \A k \in 1..Len(sss) :
                 /\ sss[k].suffix \in Range(excludes)
                 /\ batchExclude => Range(sss[k].hashes) \subseteq Range(excludes))

\* with -BX a second search is about to start: the suffix and the one entry of
\* hashes of the first are excluded
C30_Witness ==
    /\ pc = "main_loop" /\ batchExclude /\ Len(sss) = 1
    /\ Len(sss[1].hashes) = 1
    /\ excludes = <<sss[1].suffix>> \o sss[1].hashes


\* C31: main starts a search after the first only from the step that runs the
\* check trial, one trial of the initial suffix alone with the exclusions of
\* the loop so far; when that trial is PASSED or PASSED0 main prints NO MORE
\* FAILURES and ends with no further search, and when it is FAILED, DONE or
\* DONE0 the next search starts, with no trial in between.
C31_CheckTrial ==
    [][/\ (pc = "main_post_filter" /\ CheckTrialRun) =>
            /\ last'.ev = ExcludesString(ExcludesAtCheck) \o initialSuffix
            /\ Dashes(last'.ev) = Len(ExcludesAtCheck)
            /\ IF last'.result \in {PASSED, PASSED0}
               THEN pc' = "exit" /\ printed' = "NO MORE"
               ELSE /\ last'.result \in {FAILED, DONE, DONE0}
                    /\ pc' = "main_loop" /\ printed' = printed
       /\ pc' = "main_loop" => (pc = "main_post_filter" /\ CheckTrialRun)
       /\ pc = "main_loop" => (pc' = "search_A" /\ last' = last)
       /\ (pc = "main_post_filter" /\ ~CheckTrialRun) => (pc' = "exit" /\ last' = last)]_vars

\* the check trial before a second search failed: the search is about to start
C31_Witness ==
    /\ pc = "main_loop" /\ Len(sss) = 1 /\ Len(excludes) = 1
    /\ last.result \in {FAILED, DONE, DONE0}
    /\ last.ev = <<"-">> \o excludes[1] \o <<sep>>


\* C32: the watchdog's first signal is the interrupt, sent when the timer
\* expires; it sends the kill only after MaxPolls polls (100 in tryCmd) none of
\* which found the done signal; once the driver has sent the done signal the
\* next poll of the watchdog, if one is left, ends it with no kill, and no kill
\* reaches the child from then on; and doneChan has room when the driver sends
\* on it, whether the timer has fired or not.
C32_WatchdogEscalation ==
    /\ [](/\ cmd.sent \in {<<>>, <<"interrupt">>, <<"interrupt", "kill">>}
          /\ cmd.sent # <<>> => (cmd.timedOut /\ cmd.timer \in {"fired", "returned", "none"})
          /\ Len(cmd.sent) = 2 => (cmd.polls = MaxPolls /\ cmd.timer \in {"returned", "none"})
          /\ cmd.sigint => (cmd.sent # <<>> \/ pc = "interrupted")
          /\ cmd.sigkill => Len(cmd.sent) = 2
          /\ (cmd.timer = "returned" /\ cmd.polls < MaxPolls) => Len(cmd.sent) = 1)
    /\ [][/\ (cmd.timer = "armed" /\ cmd'.timer = "fired") =>
               (cmd'.sent = <<"interrupt">> /\ cmd'.sigint = (cmd.child = "live"))
          /\ (cmd.timer = "fired" /\ cmd.done /\ cmd.polls < MaxPolls
                /\ cmd' # cmd /\ pc' = pc) =>
               (cmd'.timer = "returned" /\ cmd'.sent = cmd.sent /\ ~cmd'.sigkill)
          /\ cmd.done => cmd'.sigkill = cmd.sigkill
          /\ (pc = "wait" /\ pc' = "stop") =>
               (~cmd.done /\ cmd'.done /\ cmd.child = "exited")]_vars

\* the child ignored the interrupt, the polls ran out and the kill reached it
C32_Witness ==
    /\ cmd.sent = <<"interrupt", "kill">> /\ cmd.sigint /\ cmd.sigkill
    /\ cmd.polls = MaxPolls /\ cmd.child = "exited" /\ cmd.status
    /\ pc = "stop" /\ cmd.done

\* a poll found the done signal: the watchdog returned without the kill
C32_PollFoundDone ==
    /\ cmd.sent = <<"interrupt">> /\ cmd.timer = "returned" /\ cmd.polls < MaxPolls
    /\ cmd.polls > 0 /\ ~cmd.sigkill


\* search is running or has just returned
InSearch == pc \in {"search_A", "search_B", "search_ret"}

\* C33: throughout search, whatever the trials give, next_singleton_hash_index
\* lies between 0 and len(hashes); it never decreases; and the entries search
\* reads or removes (hashes[next_singleton_hash_index] when a singleton is
\* stored, the last entry in the flaky branch) exist.
C33_Partition ==
    /\ [](InSearch => /\ 0 <= next_singleton_hash_index
                      /\ next_singleton_hash_index <= Len(hashes))
    /\ [][(InSearch /\ InSearch') =>
            /\ next_singleton_hash_index' >= next_singleton_hash_index
            /\ next_singleton_hash_index' # next_singleton_hash_index =>
                 next_singleton_hash_index + 1 \in DOMAIN hashes
            /\ Len(hashes') < Len(hashes) =>
                 (Len(hashes) \in DOMAIN hashes /\ next_singleton_hash_index < Len(hashes))]_vars

\* a flaky Trial B has taken the last entry back while a proven singleton
\* stands before it
C33_Witness ==
    /\ pc = "search_A" /\ last.result \in {PASSED0, DONE0}
    /\ Len(hashes) = 1 /\ next_singleton_hash_index = 1
    /\ Len(confirmed_suffix) = InitialLen + 2
    /\ Len(suffix) = InitialLen + 3


\* C34: no step of search changes, moves or removes an entry of hashes at a
\* position below next_singleton_hash_index: the swap of Trial B and the pop of
\* the flaky branch touch only positions from next_singleton_hash_index on.
C34_SingletonsFrame ==
    [][(InSearch /\ InSearch') =>
         \A k \in 1..next_singleton_hash_index :
            k \in DOMAIN hashes' /\ hashes'[k] = hashes[k]]_vars

\* two proven singletons, the first stored two trials before the second
C34_Witness ==
    /\ pc = "search_A" /\ last.result = DONE
    /\ Len(hashes) = 2 /\ next_singleton_hash_index = 2
    /\ Len(hashes[1]) = InitialLen + 3
    /\ Len(hashes[2]) = InitialLen + 2
    /\ Len(confirmed_suffix) = InitialLen + 2


\* C35: filter never reads hashes outside its bounds, whatever its trials
\* give: the program never panics.
C35_FilterNeverPanics == pc # "panic"


\* how often x stands in suffix and hashes
Occurrences(x) ==
    Cardinality({k \in 1..Len(hashes) : hashes[k] = x}) + (IF suffix = x THEN 1 ELSE 0)

\* every trial of filter's loop so far passed: only the trials of all the
\* entries filter was called with (the last of search, the confirming one) failed
AllRestored == \A m \in memo : m.err => m.rules = doneSet

\* C36: when filter returns, suffix is not empty and suffix and hashes hold
\* only entries filter was called with, none more often than at the call (each
\* stood once); when every trial of filter's loop was PASSED or PASSED0 they
\* hold all of them. No step of filter makes an entry more frequent among
\* suffix, hashes and the entry taken out, and a step whose trial is PASSED or
\* PASSED0 drops none.
C36_FilterSubMultiset ==
    /\ []((pc = "main_post_filter" /\ filtered = NotFiltered) =>
            /\ suffix # <<>>
            /\ {suffix} \cup Range(hashes) \subseteq doneSet
            /\ \A x \in doneSet : Occurrences(x) <= 1
            /\ AllRestored => {suffix} \cup Range(hashes) = doneSet)
    /\ [][(pc = "filter_loop" /\ pc' # "panic") =>
            /\ \A x \in Held' \ {<<>>} :
                 Occurrences(x)' + (IF pc' = "filter_loop" /\ temporarily_removed' = x
                                    THEN 1 ELSE 0)
                   <= Occurrences(x) + (IF temporarily_removed = x THEN 1 ELSE 0)
            /\ last'.result \in {PASSED, PASSED0} =>
                 \A x \in Held \ {<<>>} :
                    Occurrences(x)' + (IF pc' = "filter_loop" /\ temporarily_removed' = x
                                       THEN 1 ELSE 0)
                      = Occurrences(x) + (IF temporarily_removed = x THEN 1 ELSE 0)]_vars

\* filter has returned after a loop of passing trials only: the four entries
\* are all there, with another suffix and in another order
C36_Witness ==
    /\ pc = "main_post_filter" /\ filtered = NotFiltered
    /\ AllRestored /\ Cardinality(memo) >= 4
    /\ Cardinality(doneSet) = 4
    /\ suffix # Entry(0)
    /\ {suffix} \cup Range(hashes) = doneSet


\* x is y or the end of y
IsSuffix(x, y) == Len(x) <= Len(y) /\ SubSeq(y, Len(y) - Len(x) + 1, Len(y)) = x

\* confirmed_suffix followed by the entries of hashes
Worked == <<confirmed_suffix>> \o hashes

\* C37: at the head of every iteration of search, of confirmed_suffix and the
\* entries of hashes none is equal to another or the end of another.
C37_Incomparable ==
    pc = "search_A" =>
        \A i, j \in 1..Len(Worked) : i # j => ~IsSuffix(Worked[i], Worked[j])

\* a proven singleton of three more digits, a still-multi entry of two more,
\* and the first entry pinned taken up as confirmed_suffix
C37_Witness ==
    /\ pc = "search_A" /\ last.result = DONE
    /\ Len(hashes) = 2 /\ next_singleton_hash_index = 1
    /\ Len(hashes[1]) = InitialLen + 3
    /\ Len(hashes[2]) = InitialLen + 2
    /\ Len(confirmed_suffix) = InitialLen + 1


\* C38: whatever the trials give, a search that has started returns, with
\* success or failure.
C38_SearchTerminates ==
    (pc \in {"search_A", "search_B"}) ~> (pc = "search_ret")

\* search has returned failure from the flaky branch at the last digit
\* hashLimit allows, after a split and a proven singleton
C38_Witness ==
    /\ pc = "search_ret" /\ ~searchResult
    /\ last.result \in {PASSED0, DONE0}
    /\ Len(suffix) = hashLimit
    /\ Len(hashes) = 1 /\ next_singleton_hash_index = 1


\* C39: a trial whose child ended by itself, no signal of the watchdog having
\* reached it, is not taken for a timeout, and its error is the one Wait
\* returned for the child's exit status, for either sign of the timeout.
C39_OwnExitNotTimedOut ==
    (pc \in {"classify", "done"} /\ cmd.child = "exited"
       /\ ~cmd.sigint /\ ~cmd.sigkill) =>
        (~cmd.timedOut /\ cmd.err = cmd.status)


\* C40: the restart hint decides the first half tried in the first iteration
\* of search only: once an iteration has chosen its halves the hint is spent,
\* so that from the second iteration on the coin decides, for hint 0 and for
\* hint 1.
C40_HintFirstIterationOnly ==
    [][(pc = "search_A" /\ WithinLimit(confirmed_suffix)) =>
          restart_suffix' = <<>>]_vars

====
